---- MODULE Spec2Model ----
(***************************************************************************)
(* Model of the Memberstack documentation indexer (src/src/indexer.js):    *)
(* the line scanner parseDocumentation, addMethod, addSearchKeywords,      *)
(* generateIndex and the build script, and of the installer: its patching  *)
(* of CLAUDE.md and .cursorrules (updateClaudeFile, updateCursorRules,     *)
(* appendToFile), removeFromFile, two processes calling them on one file,  *)
(* and the commands install, update, remove and validate with their        *)
(* dry-run mode. Lines, method names, headers and file contents are        *)
(* strings; the regular expressions of the scanner and the string calls of *)
(* the patcher are evaluated character by character on them.               *)
(***************************************************************************)
EXTENDS Integers, Sequences, FiniteSets, TLC

(* ----------------------------- bounds ---------------------------------- *)

\* longest document, in lines, handed to parseDocumentation
MaxLines == 3

\* longest list of methods handed directly to addMethod
MaxFeed == 3

\* longest list of methods handed to addMethod when every trigger is exercised
MaxTrigFeed == 2

\* longest document, in lines, of well-known method headings
MaxIndexLines == 3

\* most builds one process runs one after the other
MaxBuilds == 2

\* most pieces the prior content of a patched file is made of
MaxPieces == 3

\* most times a file is patched one after the other
MaxCalls == 2

(* ------------------------- JavaScript strings -------------------------- *)

Ch(s, i) == SubSeq(s, i, i)

UpperChars == "ABCDEFGHIJKLMNOPQRSTUVWXYZ"

LowerChars == "abcdefghijklmnopqrstuvwxyz"

DigitChars == "0123456789_"

\* String.prototype.includes
Includes(s, sub) ==
    \E i \in 1..(Len(s) - Len(sub) + 1) : SubSeq(s, i, i + Len(sub) - 1) = sub

\* does sub occur in s at position i
StartsAt(s, sub, i) ==
    /\ i >= 1
    /\ i + Len(sub) - 1 <= Len(s)
    /\ SubSeq(s, i, i + Len(sub) - 1) = sub

\* the upper-case letters and their lower-case forms
LowerOf == [c \in {Ch(UpperChars, i) : i \in 1..26} |->
              Ch(LowerChars, CHOOSE i \in 1..26 : Ch(UpperChars, i) = c)]

LowerCh(c) == IF c \in DOMAIN LowerOf THEN LowerOf[c] ELSE c

RECURSIVE ToLowerCase(_)
\* String.prototype.toLowerCase
ToLowerCase(s) ==
    IF s = "" THEN "" ELSE LowerCh(Head(s)) \o ToLowerCase(Tail(s))

\* the regular-expression class \w: [A-Za-z0-9_]
WordChars ==
    {Ch(UpperChars, i) : i \in 1..26} \cup {Ch(LowerChars, i) : i \in 1..26}
        \cup {Ch(DigitChars, i) : i \in 1..11}

IsWord(c) == c \in WordChars

\* the regular-expression class \s (the members a string of the model can hold)
IsSpace(c) == c \in {" ", "\t", "\n", "\r", "\f"}

\* the regular-expression atom . (anything but a line terminator)
IsDot(c) == c \notin {"\n", "\r"}

\* number of characters of s from position i on that satisfy the class
RECURSIVE RunLen(_, _, _)
RunLen(s, i, isSpace) ==
    IF i > Len(s) THEN 0
    ELSE IF (IF isSpace THEN IsSpace(Ch(s, i)) ELSE IsWord(Ch(s, i)))
         THEN 1 + RunLen(s, i + 1, isSpace)
         ELSE 0

\* position of the first occurrence of sub in s at or after i, 0 if none
IndexFrom(s, sub, i) ==
    LET hits == {j \in i..(Len(s) - Len(sub) + 1) : StartsAt(s, sub, j)}
    IN  IF hits = {} THEN 0
        ELSE CHOOSE j \in hits : \A k \in hits : j <= k

RECURSIVE Split(_)
\* content.split('\n')
Split(content) ==
    LET nl == IndexFrom(content, "\n", 1)
    IN  IF nl = 0 THEN <<content>>
        ELSE <<SubSeq(content, 1, nl - 1)>> \o Split(SubSeq(content, nl + 1, Len(content)))

RECURSIVE Join(_)
\* the text whose lines are ls (Array.prototype.join('\n'))
Join(ls) ==
    IF Len(ls) = 0 THEN ""
    ELSE IF Len(ls) = 1 THEN ls[1]
    ELSE ls[1] \o "\n" \o Join(Tail(ls))

(* ------------------- the scanner's regular expressions ----------------- *)

\* line.match(/^#\s+(.+)$/): the lengths the greedy \s+ can take so that
\* (.+)$ matches what is left
HeaderSpaceLens(line) ==
    IF Len(line) >= 1 /\ Ch(line, 1) = "#"
    THEN {j \in 1..RunLen(line, 2, TRUE) :
            /\ j + 1 < Len(line)
            /\ \A p \in (j + 2)..Len(line) : IsDot(Ch(line, p))}
    ELSE {}

IsCategoryHeader(line) == HeaderSpaceLens(line) # {}

\* capture group 1 of /^#\s+(.+)$/
HeaderText(line) ==
    LET js == HeaderSpaceLens(line)
        j  == CHOOSE x \in js : \A y \in js : y <= x
    IN  SubSeq(line, j + 2, Len(line))

\* line.match(/^###\s+(\w+)\(\)/)
IsMethodHeading(line) ==
    /\ StartsAt(line, "###", 1)
    /\ RunLen(line, 4, TRUE) >= 1
    /\ LET w == 4 + RunLen(line, 4, TRUE)
       IN  /\ RunLen(line, w, FALSE) >= 1
           /\ StartsAt(line, "()", w + RunLen(line, w, FALSE))

\* capture group 1 of /^###\s+(\w+)\(\)/
MethodHeadingName(line) ==
    LET w == 4 + RunLen(line, 4, TRUE)
    IN  SubSeq(line, w, w + RunLen(line, w, FALSE) - 1)

\* line.match(/^##\s+/)
IsSectionHeading(line) ==
    /\ StartsAt(line, "##", 1)
    /\ RunLen(line, 3, TRUE) >= 1

\* /memberstack\.(\w+)\(([^)]*)\)/ matches at position i
SigMatchesAt(line, i) ==
    /\ StartsAt(line, "memberstack.", i)
    /\ RunLen(line, i + 12, FALSE) >= 1
    /\ LET p == i + 12 + RunLen(line, i + 12, FALSE)
       IN  /\ StartsAt(line, "(", p)
           /\ IndexFrom(line, ")", p + 1) # 0

\* positions where /memberstack\.(\w+)\(([^)]*)\)/ matches
SigMatchPositions(line) == {i \in 1..Len(line) : SigMatchesAt(line, i)}

\* `${sigMatch[1]}(${sigMatch[2]})` for the leftmost match
SigText(line) ==
    LET ps == SigMatchPositions(line)
        i  == CHOOSE x \in ps : \A y \in ps : x <= y
        w  == i + 12
        p  == w + RunLen(line, w, FALSE)
        q  == IndexFrom(line, ")", p + 1)
    IN  SubSeq(line, w, p - 1) \o "(" \o SubSeq(line, p + 1, q - 1) \o ")"

\* /Promise<([^>]+)>/ matches at position i
ReturnMatchesAt(line, i) ==
    /\ StartsAt(line, "Promise<", i)
    /\ IndexFrom(line, ">", i + 8) > i + 8

ReturnMatchPositions(line) == {i \in 1..Len(line) : ReturnMatchesAt(line, i)}

\* `Promise<${returnMatch[1]}>` for the leftmost match
ReturnText(line) ==
    LET ps == ReturnMatchPositions(line)
        i  == CHOOSE x \in ps : \A y \in ps : x <= y
        q  == IndexFrom(line, ">", i + 8)
    IN  "Promise<" \o SubSeq(line, i + 9 - 1, q - 1) \o ">"

(* ------------------------------ inputs --------------------------------- *)

\* the lines documents are made of
LineSet ==
    { "# Authentication",
      "# Member Plans",
      "# Overview",
      "## Usage",
      "### login()",
      "### logout()",
      "### login() example",
      "await memberstack.login(email)",
      "r = await memberstack.login(a, b)",
      "Promise<Member>",
      "Returns Promise<void>",
      "" }

\* the scenario of the specification's section 8
ScenarioContent ==
    "# Authentication\n### login()\nawait memberstack.login(email)\nPromise<Member>\n### logout()\n"

\* a method under a recognized heading followed by an unrecognized one, with a
\* recognized heading and an invocation after it
MixedContent ==
    "# Authentication\n# Overview\n### login()\n# Member Plans\nawait memberstack.login(email)"

\* a method whose heading is on the tenth line, and one on the twelfth
TenLineContent ==
    "\n\n\n\n\n\n\n\n\n### login() example\nPromise<Member>\n### logout()"

\* a method heading with two spaces after '###', followed by an invocation
\* and a return line
SpacedHeadingContent ==
    "###  login()\nawait memberstack.login(email)\nPromise<Member>"

\* the markdown texts buildFromFile reads
Contents ==
    {Join(d) : d \in UNION {[1..n -> LineSet] : n \in 1..MaxLines}}
        \cup {ScenarioContent, MixedContent, TenLineContent, SpacedHeadingContent}

\* headings of methods the quick reference knows, and of one it does not
IndexLineSet ==
    { "### getCurrentMember() - current member",
      "### updateMember()",
      "### logoutMember() - sign out",
      "### updatePlan() - change plan",
      "### login() example",
      "## Usage" }

IndexContents ==
    {Join(d) : d \in UNION {[1..n -> IndexLineSet] : n \in 1..MaxIndexLines}}

\* the texts the markdown file holds when it is built more than once
RebuildContents ==
    { "### login() example",
      "# Authentication\n### logout()",
      "## Usage",
      "### getMember() - current member\nPromise<Member>",
      "# Member Plans\n### updatePlan()\nawait memberstack.updatePlan(id)\n## Usage" }

\* the words a top-level heading is made of, one per category keyword
HeaderWords ==
    <<"Authentication", "Members", "Plans", "Subscriptions", "UI", "Components", "Advanced">>

RECURSIVE HeaderOf(_, _)
\* the heading text made of the words whose positions are in ws, in the order of order
HeaderOf(ws, order) ==
    IF order = <<>> THEN ""
    ELSE (IF Head(order) \in ws THEN " " \o HeaderWords[Head(order)] ELSE "")
         \o HeaderOf(ws, Tail(order))

\* one-line files: a top-level heading for every combination of category keywords,
\* the words in either order
HeaderContents ==
    {"# About" \o HeaderOf(ws, order) :
        ws \in SUBSET (1..7), order \in {<<1, 2, 3, 4, 5, 6, 7>>, <<7, 6, 5, 4, 3, 2, 1>>}}

\* the method names handed directly to addMethod
FeedNames == {"login", "loginMember", "getMember", "GetMember", "updatePlan", "init"}

Feeds == UNION {[1..n -> FeedNames] : n \in 1..MaxFeed}

\* method names that between them contain every trigger of addSearchKeywords,
\* and one that contains none
TriggerNames ==
    {"login", "signup", "logout", "resetPassword", "sendEmail", "SocialAuth",
     "getMember", "updatePlan", "deletePayment", "openModal", "init"}

TriggerFeeds == UNION {[1..n -> TriggerNames] : n \in 1..MaxTrigFeed}

(* ------------------------------- state --------------------------------- *)

VARIABLES
    methods,          \* this.methods
    categories,       \* this.categories
    searchKeywords,   \* this.searchKeywords
    content,          \* the text handed to parseDocumentation
    lines,            \* parseDocumentation: lines
    lineNumber,       \* parseDocumentation: lineNumber
    currentCategory,  \* parseDocumentation: currentCategory
    currentMethod,    \* parseDocumentation: currentMethod, <<>> for null
    pc,               \* where the caller of the indexer stands
    feed,             \* the method list a caller hands to addMethod
    fed,              \* how many methods of feed the current pass has added
    snapshot,         \* searchKeywords as the first pass over feed left it
    docFile,          \* docs/memberstack-complete.md: <<>> when absent, else <<text>>
    index,            \* what buildFromFile returned: <<>> before that, else <<index>>
    indexFile,        \* docs/memberstack-index.json: <<>> when absent, else <<index>>
    exitStatus,       \* exit status of the build script, -1 while it runs
    fresh,            \* the build under way started on a new MemberstackIndexer()
    runs,             \* the builds completed so far: text, index, fresh
    target,           \* the name of the file the installer patches
    template,         \* the section content the installer writes
    file,             \* the patched file: <<>> when absent, else <<text>>
    prev,             \* what the latest patch found: <<>> when absent, else <<text>>
    outcome,          \* what the latest patch reported, "" before any
    calls,            \* how many times the file has been patched
    log,              \* the calls made on the file so far, each with what it
                      \* found and what it left
    callers,          \* the racing calls: where each stands and what it read
    options,          \* the command line of the installer: command, dryRun
    at,               \* the step of the command the installer has completed
    memberstackDir,   \* .memberstack: <<>> when absent, else <<its files>>
    claudeFile,       \* CLAUDE.md of the project: <<>> when absent, else <<text>>
    cursorFile,       \* .cursorrules of the project: <<>> when absent, else <<text>>
    started,          \* the directory and the two files as the command found them
    validation        \* <<>> while validate has not run, else <<its report>>

vars == <<methods, categories, searchKeywords, content, lines, lineNumber,
          currentCategory, currentMethod, pc, feed, fed, snapshot,
          docFile, index, indexFile, exitStatus, fresh, runs,
          target, template, file, prev, outcome, calls, log, callers,
          options, at, memberstackDir, claudeFile, cursorFile, started, validation>>

installVars ==
    <<options, at, memberstackDir, claudeFile, cursorFile, started, validation>>

patchVars == <<target, template, file, prev, outcome, calls, log, callers>>

buildVars == <<docFile, index, indexFile, exitStatus, fresh, runs>>

scanVars == <<content, lines, lineNumber, currentCategory, currentMethod>>

feedVars == <<feed, fed, snapshot>>

\* the JavaScript object {}
EmptyObject == [k \in {} |-> <<>>]

Range(seq) == {seq[i] : i \in 1..Len(seq)}

(* --------------------------- addSearchKeywords ------------------------- *)

\* KeywordsOf with 'fetch' missing from the group of 'get'
KeywordsOf_getWithoutFetch(methodName) ==
    LET name == ToLowerCase(methodName)
        On(trigger, group) == IF Includes(name, trigger) THEN group ELSE <<>>
    IN  On("login", <<"login", "signin", "authenticate">>)
        \o On("signup", <<"signup", "register", "create account">>)
        \o On("logout", <<"logout", "signout">>)
        \o On("password", <<"password">>)
        \o On("email", <<"email">>)
        \o On("social", <<"social", "oauth", "google", "facebook">>)
        \o On("member", <<"member", "user", "profile">>)
        \o On("plan", <<"plan", "subscription", "pricing">>)
        \o On("payment", <<"payment", "billing", "checkout">>)
        \o On("update", <<"update", "modify", "change">>)
        \o On("delete", <<"delete", "remove">>)
        \o On("get", <<"get", "retrieve">>)
        \o On("modal", <<"modal", "ui", "dialog">>)

\* the keywords array addSearchKeywords collects for a method name
KeywordsOf(methodName) ==
    LET name == ToLowerCase(methodName)
        On(trigger, group) == IF Includes(name, trigger) THEN group ELSE <<>>
    IN  On("login", <<"login", "signin", "authenticate">>)
        \o On("signup", <<"signup", "register", "create account">>)
        \o On("logout", <<"logout", "signout">>)
        \o On("password", <<"password">>)
        \o On("email", <<"email">>)
        \o On("social", <<"social", "oauth", "google", "facebook">>)
        \o On("member", <<"member", "user", "profile">>)
        \o On("plan", <<"plan", "subscription", "pricing">>)
        \o On("payment", <<"payment", "billing", "checkout">>)
        \o On("update", <<"update", "modify", "change">>)
        \o On("delete", <<"delete", "remove">>)
        \o On("get", <<"get", "fetch", "retrieve">>)
        \o On("modal", <<"modal", "ui", "dialog">>)

\* PushKeyword with the name moved to the end of the list when it is there already
PushKeyword_moveToEnd(sk, keyword, methodName) ==
    LET sk1 == IF keyword \notin DOMAIN sk THEN sk @@ (keyword :> <<>>) ELSE sk
    IN  [sk1 EXCEPT ![keyword] =
            Append(SelectSeq(@, LAMBDA n : n # methodName), methodName)]

\* PushKeyword without the includes() test
PushKeyword_noIncludesTest(sk, keyword, methodName) ==
    LET sk1 == IF keyword \notin DOMAIN sk THEN sk @@ (keyword :> <<>>) ELSE sk
    IN  [sk1 EXCEPT ![keyword] = Append(@, methodName)]

\* the body of keywords.forEach
PushKeyword(sk, keyword, methodName) ==
    LET sk1 == IF keyword \notin DOMAIN sk THEN sk @@ (keyword :> <<>>) ELSE sk
    IN  IF methodName \notin Range(sk1[keyword])
        THEN [sk1 EXCEPT ![keyword] = Append(@, methodName)]
        ELSE sk1

RECURSIVE ForEachKeyword(_, _, _)
ForEachKeyword(sk, keywords, methodName) ==
    IF keywords = <<>> THEN sk
    ELSE ForEachKeyword(PushKeyword(sk, Head(keywords), methodName),
                        Tail(keywords), methodName)

AddSearchKeywords(sk, method) ==
    ForEachKeyword(sk, KeywordsOf(method.name), method.name)

(* ------------------------------ addMethod ------------------------------ *)

\* PushCategory filing the method under its name instead of its category
PushCategory_byName(cats, method) ==
    LET c1 == IF method.name \notin DOMAIN cats
              THEN cats @@ (method.name :> [methods |-> <<>>])
              ELSE cats
    IN  [c1 EXCEPT ![method.name].methods = Append(@, method)]

PushCategory(cats, method) ==
    LET c1 == IF method.category \notin DOMAIN cats
              THEN cats @@ (method.category :> [methods |-> <<>>])
              ELSE cats
    IN  [c1 EXCEPT ![method.category].methods = Append(@, method)]

AddMethod(method) ==
    /\ methods' = Append(methods, method)
    /\ categories' = PushCategory(categories, method)
    /\ searchKeywords' = AddSearchKeywords(searchKeywords, method)

(* -------------------------- parseDocumentation ------------------------- *)

\* NextCategory falling back to 'general' on a heading without a keyword
NextCategory_resetsOnUnrecognized(cat, line) ==
    IF IsCategoryHeader(line)
    THEN LET header == ToLowerCase(HeaderText(line))
         IN  IF Includes(header, "authentication") THEN "authentication"
             ELSE IF Includes(header, "member") THEN "members"
             ELSE IF Includes(header, "plan") \/ Includes(header, "subscription") THEN "plans"
             ELSE IF Includes(header, "ui") \/ Includes(header, "component") THEN "ui"
             ELSE IF Includes(header, "advanced") THEN "advanced"
             ELSE "general"
    ELSE cat

\* NextCategory testing plan/subscription before member
NextCategory_planBeforeMember(cat, line) ==
    IF IsCategoryHeader(line)
    THEN LET header == ToLowerCase(HeaderText(line))
         IN  IF Includes(header, "authentication") THEN "authentication"
             ELSE IF Includes(header, "plan") \/ Includes(header, "subscription") THEN "plans"
             ELSE IF Includes(header, "member") THEN "members"
             ELSE IF Includes(header, "ui") \/ Includes(header, "component") THEN "ui"
             ELSE IF Includes(header, "advanced") THEN "advanced"
             ELSE cat
    ELSE cat

\* "Detect category headers"
NextCategory(cat, line) ==
    IF IsCategoryHeader(line)
    THEN LET header == ToLowerCase(HeaderText(line))
         IN  IF Includes(header, "authentication") THEN "authentication"
             ELSE IF Includes(header, "member") THEN "members"
             ELSE IF Includes(header, "plan") \/ Includes(header, "subscription") THEN "plans"
             ELSE IF Includes(header, "ui") \/ Includes(header, "component") THEN "ui"
             ELSE IF Includes(header, "advanced") THEN "advanced"
             ELSE cat
    ELSE cat

\* OpenMethod counting lines from zero
OpenMethod_zeroBasedLine(cur, line, cat, ln) ==
    IF IsMethodHeading(line)
    THEN << [name        |-> MethodHeadingName(line),
             category    |-> cat,
             lineNumber  |-> ln - 1,
             signature   |-> "",
             description |-> "",
             returns     |-> "",
             parameters  |-> <<>>] >>
    ELSE cur

\* OpenMethod starting the new descriptor from the fields of the open one
OpenMethod_inheritsFields(cur, line, cat, ln) ==
    IF IsMethodHeading(line)
    THEN << [name        |-> MethodHeadingName(line),
             category    |-> cat,
             lineNumber  |-> ln,
             signature   |-> IF cur # <<>> THEN cur[1].signature ELSE "",
             description |-> "",
             returns     |-> IF cur # <<>> THEN cur[1].returns ELSE "",
             parameters  |-> <<>>] >>
    ELSE cur

\* "Detect method signatures"
OpenMethod(cur, line, cat, ln) ==
    IF IsMethodHeading(line)
    THEN << [name        |-> MethodHeadingName(line),
             category    |-> cat,
             lineNumber  |-> ln,
             signature   |-> "",
             description |-> "",
             returns     |-> "",
             parameters  |-> <<>>] >>
    ELSE cur

\* "Capture method signature"
CaptureSignature(cur, line) ==
    IF cur # <<>> /\ Includes(line, "await memberstack.") /\ SigMatchPositions(line) # {}
    THEN << [cur[1] EXCEPT !.signature = SigText(line)] >>
    ELSE cur

\* "Capture return type"
CaptureReturns(cur, line) ==
    IF cur # <<>> /\ Includes(line, "Promise<") /\ ReturnMatchPositions(line) # {}
    THEN << [cur[1] EXCEPT !.returns = ReturnText(line)] >>
    ELSE cur

\* ShouldFlush firing on method headings only, not on section headings
ShouldFlush_onlyMethodHeadings(cur, line) ==
    /\ cur # <<>>
    /\ IsMethodHeading(line)
    /\ line # ("### " \o cur[1].name \o "()")

\* ShouldFlush comparing the name of the heading, not the text of the line
ShouldFlush_comparesName(cur, line) ==
    /\ cur # <<>>
    /\ IsMethodHeading(line) \/ IsSectionHeading(line)
    /\ IsMethodHeading(line) => MethodHeadingName(line) # cur[1].name

\* "Save method when we hit the next method or section"
ShouldFlush(cur, line) ==
    /\ cur # <<>>
    /\ IsMethodHeading(line) \/ IsSectionHeading(line)
    /\ line # ("### " \o cur[1].name \o "()")

\* the method the loop body leaves in currentMethod before the flush test
Scanned(cur, line, cat, ln) ==
    CaptureReturns(CaptureSignature(OpenMethod(cur, line, cat, ln), line), line)

(* ------------------------------- actions ------------------------------- *)

\* no build has run: no index returned or written, the script has not exited
NoBuild ==
    /\ index = <<>>
    /\ indexFile = <<>>
    /\ exitStatus = -1
    /\ fresh = TRUE
    /\ runs = <<>>

\* the installer has not been started
NoInstall ==
    /\ options = [command |-> "", dryRun |-> FALSE]
    /\ at = "start"
    /\ memberstackDir = <<>>
    /\ claudeFile = <<>>
    /\ cursorFile = <<>>
    /\ started = [dir |-> <<>>, claude |-> <<>>, cursor |-> <<>>]
    /\ validation = <<>>

\* the processes that call the patcher at the same time
Callers == {1, 2}

\* no call is under way
NoCallers == [p \in Callers |-> [at |-> "idle", op |-> "", read |-> <<>>]]

\* the installer has not run: no file patched, nothing reported
NoPatch ==
    /\ target = "CLAUDE.md"
    /\ template = ""
    /\ file = <<>>
    /\ prev = <<>>
    /\ outcome = ""
    /\ calls = 0
    /\ log = <<>>
    /\ callers = NoCallers

\* new MemberstackIndexer(), the markdown file absent or holding one of texts
InitOver(texts) ==
    /\ methods = <<>>
    /\ categories = EmptyObject
    /\ searchKeywords = EmptyObject
    /\ content = ""
    /\ lines = <<>>
    /\ lineNumber = 0
    /\ currentCategory = "general"
    /\ currentMethod = <<>>
    /\ pc = "idle"
    /\ feed = <<>>
    /\ fed = 0
    /\ snapshot = EmptyObject
    /\ docFile \in {<<>>} \cup {<<c>> : c \in texts}
    /\ NoBuild
    /\ NoPatch
    /\ NoInstall

Init == InitOver(Contents)

\* parseDocumentation up to the first iteration of its loop
StartScan(text) ==
    /\ content' = text
    /\ lines' = Split(text)
    /\ currentCategory' = "general"
    /\ currentMethod' = <<>>
    /\ lineNumber' = 0
    /\ pc' = "scan"

\* ReadAndStart reading an absent file as the empty text
ReadAndStart_absentAsEmpty ==
    /\ pc = "idle"
    /\ StartScan(IF docFile = <<>> THEN "" ELSE docFile[1])
    /\ UNCHANGED <<installVars, patchVars, methods, categories, searchKeywords, feedVars, buildVars>>

\* buildFromFile: readFileSync of a file that exists, then parseDocumentation
\* up to the first iteration of its loop
ReadAndStart ==
    /\ pc = "idle"
    /\ docFile # <<>>
    /\ StartScan(docFile[1])
    /\ UNCHANGED <<installVars, patchVars, methods, categories, searchKeywords, feedVars, buildVars>>

\* buildFromFile: readFileSync throws because the file is absent
BuildFromAbsentFile ==
    /\ pc = "idle"
    /\ docFile = <<>>
    /\ pc' = "rejected"
    /\ UNCHANGED <<installVars, patchVars, methods, categories, searchKeywords, scanVars, feedVars, buildVars>>

\* one iteration of the loop over the lines
ScanLine ==
    /\ pc = "scan"
    /\ lineNumber < Len(lines)
    /\ LET ln   == lineNumber + 1
           line == lines[ln]
           cat  == NextCategory(currentCategory, line)
           cur  == Scanned(currentMethod, line, cat, ln)
       IN  /\ lineNumber' = ln
           /\ currentCategory' = cat
           /\ IF ShouldFlush(cur, line)
              THEN /\ AddMethod(cur[1])
                   /\ currentMethod' = <<>>
              ELSE /\ currentMethod' = cur
                   /\ UNCHANGED <<methods, categories, searchKeywords>>
    /\ UNCHANGED <<installVars, patchVars, content, lines, pc, feedVars, buildVars>>

\* "Don't forget the last method"
FinishParse ==
    /\ pc = "scan"
    /\ lineNumber = Len(lines)
    /\ IF currentMethod # <<>>
       THEN AddMethod(currentMethod[1])
       ELSE UNCHANGED <<methods, categories, searchKeywords>>
    /\ pc' = "parsed"
    /\ UNCHANGED <<installVars, patchVars, scanVars, feedVars, buildVars>>

BuildFromFile == ReadAndStart

(* ----------------------------- generateIndex --------------------------- *)

\* "Extract common authentication methods"
AuthMethods ==
    <<"loginMemberEmailPassword", "signupMemberEmailPassword", "loginMemberPasswordless",
      "signupMemberPasswordless", "logoutMember", "sendMemberResetPasswordEmail",
      "resetMemberPassword", "updateMemberPassword">>

\* "Extract member management methods"
MemberMethods ==
    <<"getCurrentMember", "updateMember", "getMemberMetaData", "updateMemberMetaData",
      "deleteMember", "getMemberJSON", "updateMemberJSON">>

\* "Extract plan/billing methods"
PlanMethods ==
    <<"purchasePlansWithCheckout", "openBillingPortal", "getActivePlans", "updatePlan",
      "cancelPlan", "getMemberPlans">>

\* PresentIn keeping a curated name whether or not a method has it
PresentIn_keepsAll(curated, ms) == curated

\* curated.filter(m => this.methods.find(method => method.name === m))
PresentIn(curated, ms) ==
    SelectSeq(curated, LAMBDA m : \E i \in 1..Len(ms) : ms[i].name = m)

RECURSIVE Decimal(_)
\* the decimal digits of a natural number, as a template literal renders it
Decimal(n) ==
    IF n < 10 THEN Ch(DigitChars, n + 1)
    ELSE Decimal(n \div 10) \o Ch(DigitChars, (n % 10) + 1)

\* the entry of allMethods for a method
AllMethodsEntry(m) ==
    [name        |-> m.name,
     category    |-> m.category,
     signature   |-> m.signature,
     returns     |-> m.returns,
     docLocation |-> "complete.md#L" \o Decimal(m.lineNumber)]

\* the index generateIndex returns; lastUpdated, the time of the call, is left out
IndexValue(ms, cats, sk) ==
    [version        |-> "2.0.0",
     totalMethods   |-> Len(ms),
     categories     |-> cats,
     searchKeywords |-> sk,
     quickReference |-> [authentication |-> PresentIn(AuthMethods, ms),
                         members        |-> PresentIn(MemberMethods, ms),
                         plans          |-> PresentIn(PlanMethods, ms)],
     allMethods     |-> [i \in 1..Len(ms) |-> AllMethodsEntry(ms[i])]]

\* buildFromFile: return this.generateIndex()
GenerateIndex ==
    /\ pc = "parsed"
    /\ index' = <<IndexValue(methods, categories, searchKeywords)>>
    /\ runs' = Append(runs, [content |-> content, fresh |-> fresh,
                             index |-> IndexValue(methods, categories, searchKeywords)])
    /\ pc' = "indexed"
    /\ UNCHANGED <<installVars, patchVars, methods, categories, searchKeywords, scanVars, feedVars,
                   docFile, indexFile, exitStatus, fresh>>

(* ------------------------- the build script ---------------------------- *)

\* buildIndex: fs.writeFileSync(indexPath, JSON.stringify(index, null, 2)),
\* after which the script ends
WriteIndexFile ==
    /\ pc = "indexed"
    /\ exitStatus = -1
    /\ indexFile' = index
    /\ exitStatus' = 0
    /\ pc' = "exited"
    /\ UNCHANGED <<installVars, patchVars, methods, categories, searchKeywords, scanVars, feedVars,
                   docFile, index, fresh, runs>>

\* buildIndex: catch (error) { ...; process.exit(1) }
ExitFailure ==
    /\ pc = "rejected"
    /\ exitStatus' = 1
    /\ pc' = "exited"
    /\ UNCHANGED <<installVars, patchVars, methods, categories, searchKeywords, scanVars, feedVars,
                   docFile, index, indexFile, fresh, runs>>

Next ==
    \/ BuildFromFile
    \/ BuildFromAbsentFile
    \/ ScanLine
    \/ FinishParse
    \/ GenerateIndex
    \/ WriteIndexFile
    \/ ExitFailure

Spec == Init /\ [][Next]_vars

(* ---------- the scanner on a file that is one top-level heading -------- *)

InitCat == InitOver(HeaderContents) /\ docFile # <<>>

NextCat == BuildFromFile \/ ScanLine \/ FinishParse

SpecCat == InitCat /\ [][NextCat]_vars

(* ------------- the build script on files of well-known methods --------- *)

InitIndex == InitOver(IndexContents)

SpecIndex == InitIndex /\ [][Next]_vars

(* --------------------- several builds in one process ------------------- *)

\* the constructor with this.methods left as it was
NewIndexer_keepsMethods ==
    /\ methods' = methods
    /\ categories' = EmptyObject
    /\ searchKeywords' = EmptyObject

\* new MemberstackIndexer()
NewIndexer ==
    /\ methods' = <<>>
    /\ categories' = EmptyObject
    /\ searchKeywords' = EmptyObject

\* indexer.buildFromFile(path) once more on the indexer that has built already;
\* the file may have been edited since
BuildAgainSameIndexer ==
    /\ pc = "indexed"
    /\ Len(runs) < MaxBuilds
    /\ \E c \in RebuildContents :
         /\ docFile' = <<c>>
         /\ StartScan(c)
    /\ fresh' = FALSE
    /\ UNCHANGED <<installVars, patchVars, methods, categories, searchKeywords, feedVars,
                   index, indexFile, exitStatus, runs>>

\* the build script started once more: a new indexer builds from the file
BuildAgainNewIndexer ==
    /\ pc = "indexed"
    /\ Len(runs) < MaxBuilds
    /\ \E c \in RebuildContents :
         /\ docFile' = <<c>>
         /\ StartScan(c)
    /\ NewIndexer
    /\ fresh' = TRUE
    /\ UNCHANGED <<installVars, patchVars, feedVars, index, indexFile, exitStatus, runs>>

InitRebuild == InitOver(RebuildContents) /\ docFile # <<>>

NextRebuild ==
    \/ BuildFromFile
    \/ ScanLine
    \/ FinishParse
    \/ GenerateIndex
    \/ BuildAgainSameIndexer
    \/ BuildAgainNewIndexer

SpecRebuild == InitRebuild /\ [][NextRebuild]_vars

(* ------------- a caller that hands a method list to addMethod ---------- *)

\* the descriptor a caller builds for the i-th method of its list
MethodNamed(name, i) ==
    [name        |-> name,
     category    |-> "general",
     lineNumber  |-> i,
     signature   |-> "",
     description |-> "",
     returns     |-> "",
     parameters  |-> <<>>]

InitKW ==
    /\ methods = <<>>
    /\ categories = EmptyObject
    /\ searchKeywords = EmptyObject
    /\ content = ""
    /\ lines = <<>>
    /\ lineNumber = 0
    /\ currentCategory = "general"
    /\ currentMethod = <<>>
    /\ pc = "feed1"
    /\ feed \in Feeds
    /\ fed = 0
    /\ snapshot = EmptyObject
    /\ docFile = <<>>
    /\ NoBuild
    /\ NoPatch
    /\ NoInstall

\* indexer.addMethod(feed[fed])
FeedMethod ==
    /\ pc \in {"feed1", "feed2"}
    /\ fed < Len(feed)
    /\ AddMethod(MethodNamed(feed[fed + 1], fed + 1))
    /\ fed' = fed + 1
    /\ UNCHANGED <<installVars, patchVars, scanVars, pc, feed, snapshot, buildVars>>

\* the list has been added once; it is added again to the same indexer
RefeedSameIndexer ==
    /\ pc = "feed1"
    /\ fed = Len(feed)
    /\ snapshot' = searchKeywords
    /\ fed' = 0
    /\ pc' = "feed2"
    /\ UNCHANGED <<installVars, patchVars, methods, categories, searchKeywords, scanVars, feed, buildVars>>

\* the list has been added once; it is added again to a new MemberstackIndexer()
RefeedFreshIndexer ==
    /\ pc = "feed1"
    /\ fed = Len(feed)
    /\ snapshot' = searchKeywords
    /\ fed' = 0
    /\ pc' = "feed2"
    /\ methods' = <<>>
    /\ categories' = EmptyObject
    /\ searchKeywords' = EmptyObject
    /\ UNCHANGED <<installVars, patchVars, scanVars, feed, buildVars>>

NextKW == FeedMethod \/ RefeedSameIndexer \/ RefeedFreshIndexer

SpecKW == InitKW /\ [][NextKW]_vars

\* the same caller with a list drawn from the names that exercise every trigger
InitTrig ==
    /\ methods = <<>>
    /\ categories = EmptyObject
    /\ searchKeywords = EmptyObject
    /\ content = ""
    /\ lines = <<>>
    /\ lineNumber = 0
    /\ currentCategory = "general"
    /\ currentMethod = <<>>
    /\ pc = "feed1"
    /\ feed \in TriggerFeeds
    /\ fed = 0
    /\ snapshot = EmptyObject
    /\ docFile = <<>>
    /\ NoBuild
    /\ NoPatch
    /\ NoInstall

SpecTrig == InitTrig /\ [][NextKW]_vars

(* ------------------- the installer's patching of a file ---------------- *)

CLAUDE_MARKER_START == "<!-- MEMBERSTACK-AI-DOCS-START -->"

CLAUDE_MARKER_END == "<!-- MEMBERSTACK-AI-DOCS-END -->"

CURSOR_MARKER_START == "# MEMBERSTACK-AI-DOCS-START"

CURSOR_MARKER_END == "# MEMBERSTACK-AI-DOCS-END"

\* the files that are patched: the two of the installer, and the file of the
\* specification's scenarios with its markers S and E
Targets == {"CLAUDE.md", ".cursorrules", "OUT.md"}

\* the two files the installer patches
InstallerTargets == {"CLAUDE.md", ".cursorrules"}

\* the markerStart argument used for a file
MarkerStart(t) ==
    CASE t = "CLAUDE.md"    -> CLAUDE_MARKER_START
      [] t = ".cursorrules" -> CURSOR_MARKER_START
      [] t = "OUT.md"       -> "<!--S-->"

\* the markerEnd argument used for a file
MarkerEnd(t) ==
    CASE t = "CLAUDE.md"    -> CLAUDE_MARKER_END
      [] t = ".cursorrules" -> CURSOR_MARKER_END
      [] t = "OUT.md"       -> "<!--E-->"

\* the section contents written to a file: the embedded template (markers on
\* their own lines, nothing after the end marker), for CLAUDE.md also the
\* template file (a line break after the end marker); the scenarios' contents
Templates(t) ==
    CASE t = "CLAUDE.md" ->
           { CLAUDE_MARKER_START \o "\nnew\n" \o CLAUDE_MARKER_END,
             CLAUDE_MARKER_START \o "\nnew\n" \o CLAUDE_MARKER_END \o "\n" }
      [] t = ".cursorrules" ->
           { CURSOR_MARKER_START \o "\nnew\n" \o CURSOR_MARKER_END }
      [] t = "OUT.md" ->
           { "<!--S-->new<!--E-->", "X" }

\* what the prior content of a file is made of
Pieces(t) == {"pre\n", MarkerStart(t), "old", MarkerEnd(t), "\npost"}

RECURSIVE Concat(_)
\* the pieces one after the other
Concat(ps) == IF Len(ps) = 0 THEN "" ELSE ps[1] \o Concat(Tail(ps))

\* a section between user text, as an earlier install left it
SectionBetween(t) ==
    "pre\n" \o MarkerStart(t) \o "old" \o MarkerEnd(t) \o "\npost"

\* the prior contents of a file that exists
FileTexts(t) ==
    {Concat(ps) : ps \in UNION {[1..n -> Pieces(t)] : n \in 0..MaxPieces}}
        \cup {SectionBetween(t)}

\* String.prototype.indexOf: 0-based, -1 when sub does not occur
IndexOf(s, sub) == IndexFrom(s, sub, 1) - 1

\* an index argument of substring, brought into 0..len
Clamp(n, len) == IF n < 0 THEN 0 ELSE IF n > len THEN len ELSE n

\* String.prototype.substring(start, end)
Substring(s, start, end) ==
    LET a  == Clamp(start, Len(s))
        b  == Clamp(end, Len(s))
        lo == IF a <= b THEN a ELSE b
        hi == IF a <= b THEN b ELSE a
    IN  SubSeq(s, lo + 1, hi)

\* String.prototype.substring(start)
SubstringFrom(s, start) == Substring(s, start, Len(s))

\* Appended with a single line break as separator
Appended_oneNewline(existingContent, newContent) ==
    existingContent \o "\n" \o newContent

\* fs.appendFileSync(filePath, '\n\n' + content) on a file that exists
Appended(existingContent, newContent) ==
    existingContent \o "\n\n" \o newContent

\* Replaced keeping nothing of what follows endIndex
Replaced_dropsSuffix(existingContent, newContent, startIndex, endIndex) ==
    Substring(existingContent, 0, startIndex) \o newContent

\* Replaced cutting the old section out and putting nothing in its place
Replaced_withoutContent(existingContent, newContent, startIndex, endIndex) ==
    Substring(existingContent, 0, startIndex)
        \o SubstringFrom(existingContent, endIndex)

\* the content written when the section is replaced
Replaced(existingContent, newContent, startIndex, endIndex) ==
    Substring(existingContent, 0, startIndex)
        \o newContent
        \o SubstringFrom(existingContent, endIndex)

\* AppendToFile logging the replace message also when it appends after
\* corrupted markers
AppendToFile_corruptedAsReplaced(existingContent, newContent, markerStart, markerEnd) ==
    IF Includes(existingContent, markerStart)
    THEN LET startIndex == IndexOf(existingContent, markerStart)
             endIndex   == IndexOf(existingContent, markerEnd) + Len(markerEnd)
         IN  IF endIndex > startIndex
             THEN [text    |-> Replaced(existingContent, newContent, startIndex, endIndex),
                   outcome |-> "replaced"]
             ELSE [text    |-> Appended(existingContent, newContent),
                   outcome |-> "replaced"]
    ELSE [text    |-> Appended(existingContent, newContent),
          outcome |-> "appended-new"]

\* AppendToFile appending the section whether or not the start marker is there
AppendToFile_alwaysAppends(existingContent, newContent, markerStart, markerEnd) ==
    [text    |-> Appended(existingContent, newContent),
     outcome |-> IF Includes(existingContent, markerStart)
                 THEN "appended-corrupted" ELSE "appended-new"]

\* AppendToFile looking for the end marker from the start marker on
AppendToFile_endAfterStart(existingContent, newContent, markerStart, markerEnd) ==
    IF Includes(existingContent, markerStart)
    THEN LET startIndex == IndexOf(existingContent, markerStart)
             endIndex   == IndexFrom(existingContent, markerEnd, startIndex + 1) - 1
                               + Len(markerEnd)
         IN  IF endIndex > startIndex
             THEN [text    |-> Replaced(existingContent, newContent, startIndex, endIndex),
                   outcome |-> "replaced"]
             ELSE [text    |-> Appended(existingContent, newContent),
                   outcome |-> "appended-corrupted"]
    ELSE [text    |-> Appended(existingContent, newContent),
          outcome |-> "appended-new"]

\* appendToFile on a file that holds existingContent: the content the file
\* is left with, and the outcome the message logged stands for
AppendToFile(existingContent, newContent, markerStart, markerEnd) ==
    IF Includes(existingContent, markerStart)
    THEN LET startIndex == IndexOf(existingContent, markerStart)
             endIndex   == IndexOf(existingContent, markerEnd) + Len(markerEnd)
         IN  IF endIndex > startIndex
             THEN [text    |-> Replaced(existingContent, newContent, startIndex, endIndex),
                   outcome |-> "replaced"]
             ELSE [text    |-> Appended(existingContent, newContent),
                   outcome |-> "appended-corrupted"]
    ELSE [text    |-> Appended(existingContent, newContent),
          outcome |-> "appended-new"]

\* Written with the separator of an append put before a created file's content
Written_createdWithSeparator(fileState, newContent, markerStart, markerEnd) ==
    IF fileState # <<>>
    THEN AppendToFile(fileState[1], newContent, markerStart, markerEnd)
    ELSE [text |-> "\n\n" \o newContent, outcome |-> "created"]

\* updateClaudeFile, updateCursorRules without dryRun: "Update existing file"
\* or "Create new file"
Written(fileState, newContent, markerStart, markerEnd) ==
    IF fileState # <<>>
    THEN AppendToFile(fileState[1], newContent, markerStart, markerEnd)
    ELSE [text |-> newContent, outcome |-> "created"]

\* one patch of the file with the given markers
UpdateFile(markerStart, markerEnd) ==
    /\ calls < MaxCalls
    /\ LET w == Written(file, template, markerStart, markerEnd)
       IN  /\ file' = <<w.text>>
           /\ outcome' = w.outcome
    /\ prev' = file
    /\ calls' = calls + 1
    /\ log' = Append(log, [op |-> "patch", before |-> file, after |-> file',
                           outcome |-> outcome'])
    /\ UNCHANGED <<target, template, callers, methods, categories, searchKeywords,
                   scanVars, pc, feedVars, buildVars, installVars>>

\* updateClaudeFile(options), options.dryRun not set
UpdateClaudeFile ==
    /\ target = "CLAUDE.md"
    /\ UpdateFile(CLAUDE_MARKER_START, CLAUDE_MARKER_END)

\* updateCursorRules(options), options.dryRun not set
UpdateCursorRules ==
    /\ target = ".cursorrules"
    /\ UpdateFile(CURSOR_MARKER_START, CURSOR_MARKER_END)

\* the same patch of the scenarios' file with the markers S and E
PatchOutFile ==
    /\ target = "OUT.md"
    /\ UpdateFile(MarkerStart("OUT.md"), MarkerEnd("OUT.md"))

\* the installer before it patches: a file absent or with some prior content
InitPatch ==
    /\ methods = <<>>
    /\ categories = EmptyObject
    /\ searchKeywords = EmptyObject
    /\ content = ""
    /\ lines = <<>>
    /\ lineNumber = 0
    /\ currentCategory = "general"
    /\ currentMethod = <<>>
    /\ pc = "idle"
    /\ feed = <<>>
    /\ fed = 0
    /\ snapshot = EmptyObject
    /\ docFile = <<>>
    /\ NoBuild
    /\ target \in Targets
    /\ template \in Templates(target)
    /\ file \in {<<>>} \cup {<<t>> : t \in FileTexts(target)}
    /\ prev = <<>>
    /\ outcome = ""
    /\ calls = 0
    /\ log = <<>>
    /\ callers = NoCallers
    /\ NoInstall

NextPatch == UpdateClaudeFile \/ UpdateCursorRules \/ PatchOutFile

SpecPatch == InitPatch /\ [][NextPatch]_vars

(* --------------------- removal of the section from a file -------------- *)

RECURSIVE TrimEnd(_)
\* String.prototype.trimEnd
TrimEnd(s) ==
    IF Len(s) = 0 THEN s
    ELSE IF IsSpace(Ch(s, Len(s))) THEN TrimEnd(SubSeq(s, 1, Len(s) - 1))
    ELSE s

\* RemovedContent without the trimEnd
RemovedContent_untrimmed(text, startIndex, endIndex) ==
    Substring(text, 0, startIndex) \o SubstringFrom(text, endIndex)

\* RemovedContent taking what follows from startIndex on
RemovedContent_keepsRange(text, startIndex, endIndex) ==
    TrimEnd(Substring(text, 0, startIndex)) \o SubstringFrom(text, startIndex)

\* the content removeFromFile writes back
RemovedContent(text, startIndex, endIndex) ==
    TrimEnd(Substring(text, 0, startIndex)) \o SubstringFrom(text, endIndex)

\* Removed writing an empty file where there was none
Removed_createsAbsent(fileState, markerStart, markerEnd, dryRun) ==
    IF fileState = <<>> THEN [state |-> <<"">>, wrote |-> TRUE]
    ELSE IF dryRun THEN [state |-> fileState, wrote |-> FALSE]
    ELSE LET text == fileState[1]
         IN  IF Includes(text, markerStart)
             THEN LET startIndex == IndexOf(text, markerStart)
                      endIndex   == IndexOf(text, markerEnd) + Len(markerEnd)
                  IN  IF endIndex > startIndex
                      THEN [state |-> <<RemovedContent(text, startIndex, endIndex)>>,
                            wrote |-> TRUE]
                      ELSE [state |-> fileState, wrote |-> FALSE]
             ELSE [state |-> fileState, wrote |-> FALSE]

\* Removed leaving every file as it is
Removed_neverWrites(fileState, markerStart, markerEnd, dryRun) ==
    [state |-> fileState, wrote |-> FALSE]

\* removeFromFile: the state it leaves the file in, and whether it wrote it
Removed(fileState, markerStart, markerEnd, dryRun) ==
    IF fileState = <<>> THEN [state |-> <<>>, wrote |-> FALSE]
    ELSE IF dryRun THEN [state |-> fileState, wrote |-> FALSE]
    ELSE LET text == fileState[1]
         IN  IF Includes(text, markerStart)
             THEN LET startIndex == IndexOf(text, markerStart)
                      endIndex   == IndexOf(text, markerEnd) + Len(markerEnd)
                  IN  IF endIndex > startIndex
                      THEN [state |-> <<RemovedContent(text, startIndex, endIndex)>>,
                            wrote |-> TRUE]
                      ELSE [state |-> fileState, wrote |-> FALSE]
             ELSE [state |-> fileState, wrote |-> FALSE]

\* one removeFromFile, options.dryRun not set, on the file with the given markers
RemoveFromFile(markerStart, markerEnd) ==
    /\ calls < MaxCalls
    /\ LET r == Removed(file, markerStart, markerEnd, FALSE)
       IN  /\ file' = r.state
           /\ outcome' = IF r.wrote THEN "removed" ELSE "untouched"
    /\ prev' = file
    /\ calls' = calls + 1
    /\ log' = Append(log, [op |-> "remove", before |-> file, after |-> file',
                           outcome |-> outcome'])
    /\ UNCHANGED <<target, template, callers, methods, categories, searchKeywords,
                   scanVars, pc, feedVars, buildVars, installVars>>

\* remove: "Remove from CLAUDE.md"
RemoveFromClaudeFile ==
    /\ target = "CLAUDE.md"
    /\ RemoveFromFile(CLAUDE_MARKER_START, CLAUDE_MARKER_END)

\* remove: "Remove from .cursorrules"
RemoveFromCursorRules ==
    /\ target = ".cursorrules"
    /\ RemoveFromFile(CURSOR_MARKER_START, CURSOR_MARKER_END)

\* the same removal from the scenarios' file with the markers S and E
RemoveFromOutFile ==
    /\ target = "OUT.md"
    /\ RemoveFromFile(MarkerStart("OUT.md"), MarkerEnd("OUT.md"))

\* installs and removals in any order
NextLife ==
    \/ UpdateClaudeFile
    \/ UpdateCursorRules
    \/ PatchOutFile
    \/ RemoveFromClaudeFile
    \/ RemoveFromCursorRules
    \/ RemoveFromOutFile

SpecLife == InitPatch /\ [][NextLife]_vars

(* ------------------- calls on one file by two processes ---------------- *)

\* RaceWritten overwriting the file in every branch with what was computed
\* from the content read
RaceWritten_overwritesAlways(readState, fileState, newContent, markerStart, markerEnd) ==
    <<Written(readState, newContent, markerStart, markerEnd).text>>

\* the file after the write of a patch that read readState, the file being
\* fileState by then: writeFileSync when creating or replacing,
\* appendFileSync in the two append branches
RaceWritten(readState, fileState, newContent, markerStart, markerEnd) ==
    LET w == Written(readState, newContent, markerStart, markerEnd)
    IN  IF w.outcome \in {"created", "replaced"}
        THEN <<w.text>>
        ELSE <<Appended(IF fileState = <<>> THEN "" ELSE fileState[1], newContent)>>

\* the file after a remove that read readState, the file being fileState by
\* then: writeFileSync of what was computed, or no write
RaceRemoved(readState, fileState, markerStart, markerEnd) ==
    LET r == Removed(readState, markerStart, markerEnd, FALSE)
    IN  IF r.wrote THEN r.state ELSE fileState

\* updateClaudeFile/updateCursorRules up to readFileSync in appendToFile
ReadForPatch(p) ==
    /\ callers[p].at = "idle"
    /\ callers' = [callers EXCEPT ![p] = [at |-> "read", op |-> "patch", read |-> file]]
    /\ UNCHANGED <<target, template, file, prev, outcome, calls, log,
                   methods, categories, searchKeywords,
                   scanVars, pc, feedVars, buildVars, installVars>>

\* removeFromFile up to readFileSync
ReadForRemove(p) ==
    /\ callers[p].at = "idle"
    /\ callers' = [callers EXCEPT ![p] = [at |-> "read", op |-> "remove", read |-> file]]
    /\ UNCHANGED <<target, template, file, prev, outcome, calls, log,
                   methods, categories, searchKeywords,
                   scanVars, pc, feedVars, buildVars, installVars>>

\* the write of the patch that caller p began
WritePatch(p) ==
    /\ callers[p].at = "read"
    /\ callers[p].op = "patch"
    /\ file' = RaceWritten(callers[p].read, file, template,
                           MarkerStart(target), MarkerEnd(target))
    /\ outcome' = Written(callers[p].read, template,
                          MarkerStart(target), MarkerEnd(target)).outcome
    /\ prev' = file
    /\ calls' = calls + 1
    /\ log' = Append(log, [op |-> "patch", before |-> callers[p].read,
                           after |-> file', outcome |-> outcome'])
    /\ callers' = [callers EXCEPT ![p].at = "done"]
    /\ UNCHANGED <<target, template, methods, categories, searchKeywords,
                   scanVars, pc, feedVars, buildVars, installVars>>

\* the write, if any, of the remove that caller p began
WriteRemove(p) ==
    /\ callers[p].at = "read"
    /\ callers[p].op = "remove"
    /\ file' = RaceRemoved(callers[p].read, file,
                           MarkerStart(target), MarkerEnd(target))
    /\ outcome' = IF Removed(callers[p].read, MarkerStart(target),
                             MarkerEnd(target), FALSE).wrote
                  THEN "removed" ELSE "untouched"
    /\ prev' = file
    /\ calls' = calls + 1
    /\ log' = Append(log, [op |-> "remove", before |-> callers[p].read,
                           after |-> file', outcome |-> outcome'])
    /\ callers' = [callers EXCEPT ![p].at = "done"]
    /\ UNCHANGED <<target, template, methods, categories, searchKeywords,
                   scanVars, pc, feedVars, buildVars, installVars>>

\* two processes, each making one call on CLAUDE.md or on .cursorrules
InitRace == InitPatch /\ target \in InstallerTargets

NextRace ==
    \E p \in Callers :
        \/ ReadForPatch(p)
        \/ ReadForRemove(p)
        \/ WritePatch(p)
        \/ WriteRemove(p)

SpecRace == InitRace /\ [][NextRace]_vars

(* --------------------- the commands of the installer ------------------- *)

\* the files downloadDocumentation fetches, in its order
DocFiles == <<"complete.md", "index.json", "quickref.md">>

\* .memberstack holding no file
EmptyDir == [n \in {} |-> ""]

\* the states of .memberstack a command can find: absent, empty, or holding
\* the three files of an earlier install
DirStates ==
    {<<>>, <<EmptyDir>>, <<[n \in Range(DocFiles) |-> "earlier"]>>}

\* the contents of CLAUDE.md or .cursorrules a command can find: empty, user
\* text, a section between user text, a start marker without end marker, an
\* end marker before the start marker
ProjectTexts(t) ==
    { "",
      "pre\n",
      SectionBetween(t),
      MarkerStart(t) \o "old",
      MarkerEnd(t) \o MarkerStart(t) }

\* the embedded section content written to .cursorrules
CursorTemplate == CHOOSE t \in Templates(".cursorrules") : TRUE

\* what each fetch of a run does: the response is ok, or it fails and a local
\* copy exists, or it fails and there is none
FetchResults == [1..Len(DocFiles) -> {"fetched", "local", "none"}]

\* the first file that can be neither fetched nor copied, 0 if there is none
FirstFailure(results) ==
    LET failed == {i \in 1..Len(DocFiles) : results[i] = "none"}
    IN  IF failed = {} THEN 0
        ELSE CHOOSE i \in failed : \A j \in failed : i <= j

\* the files of .memberstack after the loop of downloadDocumentation: every
\* file before the first failure is written
Downloaded(files, results) ==
    LET k       == FirstFailure(results)
        written == {DocFiles[i] :
                       i \in IF k = 0 THEN 1..Len(DocFiles) ELSE 1..(k - 1)}
        tagOf   == [n \in written |->
                       results[CHOOSE i \in 1..Len(DocFiles) : DocFiles[i] = n]]
    IN  [n \in DOMAIN files \cup written |->
             IF n \in written THEN tagOf[n] ELSE files[n]]

\* UpdatedFile writing the file also when options.dryRun is set
UpdatedFile_ignoresDryRun(fileState, newContent, markerStart, markerEnd, dryRun) ==
    <<Written(fileState, newContent, markerStart, markerEnd).text>>

\* updateClaudeFile, updateCursorRules: the file they leave
UpdatedFile(fileState, newContent, markerStart, markerEnd, dryRun) ==
    IF dryRun THEN fileState
    ELSE <<Written(fileState, newContent, markerStart, markerEnd).text>>

\* what validate reports on CLAUDE.md or .cursorrules
SectionCheck(fileState, markerStart) ==
    IF fileState = <<>> THEN "not found"
    ELSE IF Includes(fileState[1], markerStart) THEN "contains section"
    ELSE "missing section"

\* validate: isValid and the checks of the two files
ValidationReport ==
    [isValid |-> /\ memberstackDir # <<>>
                 /\ Range(DocFiles) \subseteq DOMAIN memberstackDir[1],
     claude  |-> SectionCheck(claudeFile, CLAUDE_MARKER_START),
     cursor  |-> SectionCheck(cursorFile, CURSOR_MARKER_START)]

\* the command is install, or update, which re-runs install
Installing == options.command \in {"install", "update"}

\* "Step 1: Create .memberstack directory"
CreateMemberstackDirectory ==
    /\ Installing
    /\ at = "start"
    /\ memberstackDir' = IF options.dryRun \/ memberstackDir # <<>>
                         THEN memberstackDir
                         ELSE <<EmptyDir>>
    /\ at' = "directory"
    /\ UNCHANGED <<options, claudeFile, cursorFile, started, validation,
                   patchVars, methods, categories, searchKeywords,
                   scanVars, pc, feedVars, buildVars>>

\* DownloadDocumentation going on to the next step when a file can be neither
\* fetched nor copied
DownloadDocumentation_swallowsFailure ==
    /\ Installing
    /\ at = "directory"
    /\ IF options.dryRun
       THEN /\ at' = "downloaded"
            /\ UNCHANGED memberstackDir
       ELSE \E results \in FetchResults :
                /\ memberstackDir' = <<Downloaded(memberstackDir[1], results)>>
                /\ at' = "downloaded"
    /\ UNCHANGED <<options, claudeFile, cursorFile, started, validation,
                   patchVars, methods, categories, searchKeywords,
                   scanVars, pc, feedVars, buildVars>>

\* "Step 2: Download documentation files"; install rethrows when a file can
\* be neither fetched nor copied
DownloadDocumentation ==
    /\ Installing
    /\ at = "directory"
    /\ IF options.dryRun
       THEN /\ at' = "downloaded"
            /\ UNCHANGED memberstackDir
       ELSE \E results \in FetchResults :
                /\ memberstackDir' = <<Downloaded(memberstackDir[1], results)>>
                /\ at' = IF FirstFailure(results) = 0 THEN "downloaded" ELSE "failed"
    /\ UNCHANGED <<options, claudeFile, cursorFile, started, validation,
                   patchVars, methods, categories, searchKeywords,
                   scanVars, pc, feedVars, buildVars>>

\* "Step 3: Update CLAUDE.md"
InstallClaudeFile ==
    /\ Installing
    /\ at = "downloaded"
    /\ claudeFile' = UpdatedFile(claudeFile, template, CLAUDE_MARKER_START,
                                 CLAUDE_MARKER_END, options.dryRun)
    /\ at' = "claude"
    /\ UNCHANGED <<options, memberstackDir, cursorFile, started, validation,
                   patchVars, methods, categories, searchKeywords,
                   scanVars, pc, feedVars, buildVars>>

\* "Step 4: Update .cursorrules"
InstallCursorRules ==
    /\ Installing
    /\ at = "claude"
    /\ cursorFile' = UpdatedFile(cursorFile, CursorTemplate, CURSOR_MARKER_START,
                                 CURSOR_MARKER_END, options.dryRun)
    /\ at' = "cursor"
    /\ UNCHANGED <<options, memberstackDir, claudeFile, started, validation,
                   patchVars, methods, categories, searchKeywords,
                   scanVars, pc, feedVars, buildVars>>

\* "Step 5: Validate installation", and the end of install
FinishInstall ==
    /\ Installing
    /\ at = "cursor"
    /\ validation' = IF options.dryRun THEN validation ELSE <<ValidationReport>>
    /\ at' = "done"
    /\ UNCHANGED <<options, memberstackDir, claudeFile, cursorFile, started,
                   patchVars, methods, categories, searchKeywords,
                   scanVars, pc, feedVars, buildVars>>

\* remove: "Remove .memberstack directory"
RemoveMemberstackDirectory ==
    /\ options.command = "remove"
    /\ at = "start"
    /\ memberstackDir' = IF options.dryRun THEN memberstackDir ELSE <<>>
    /\ at' = "directory"
    /\ UNCHANGED <<options, claudeFile, cursorFile, started, validation,
                   patchVars, methods, categories, searchKeywords,
                   scanVars, pc, feedVars, buildVars>>

\* remove: "Remove from CLAUDE.md"
RemoveClaudeSection ==
    /\ options.command = "remove"
    /\ at = "directory"
    /\ claudeFile' = Removed(claudeFile, CLAUDE_MARKER_START, CLAUDE_MARKER_END,
                             options.dryRun).state
    /\ at' = "claude"
    /\ UNCHANGED <<options, memberstackDir, cursorFile, started, validation,
                   patchVars, methods, categories, searchKeywords,
                   scanVars, pc, feedVars, buildVars>>

\* remove: "Remove from .cursorrules", and the end of remove
RemoveCursorSection ==
    /\ options.command = "remove"
    /\ at = "claude"
    /\ cursorFile' = Removed(cursorFile, CURSOR_MARKER_START, CURSOR_MARKER_END,
                             options.dryRun).state
    /\ at' = "done"
    /\ UNCHANGED <<options, memberstackDir, claudeFile, started, validation,
                   patchVars, methods, categories, searchKeywords,
                   scanVars, pc, feedVars, buildVars>>

\* the command --validate
ValidateCommand ==
    /\ options.command = "validate"
    /\ at = "start"
    /\ validation' = <<ValidationReport>>
    /\ at' = "done"
    /\ UNCHANGED <<options, memberstackDir, claudeFile, cursorFile, started,
                   patchVars, methods, categories, searchKeywords,
                   scanVars, pc, feedVars, buildVars>>

\* one command of the installer started in a project
InitInstall ==
    /\ methods = <<>>
    /\ categories = EmptyObject
    /\ searchKeywords = EmptyObject
    /\ content = ""
    /\ lines = <<>>
    /\ lineNumber = 0
    /\ currentCategory = "general"
    /\ currentMethod = <<>>
    /\ pc = "idle"
    /\ feed = <<>>
    /\ fed = 0
    /\ snapshot = EmptyObject
    /\ docFile = <<>>
    /\ NoBuild
    /\ target = "CLAUDE.md"
    /\ template \in Templates("CLAUDE.md")
    /\ file = <<>>
    /\ prev = <<>>
    /\ outcome = ""
    /\ calls = 0
    /\ log = <<>>
    /\ callers = NoCallers
    /\ options \in [command : {"install", "update", "remove", "validate"},
                    dryRun  : BOOLEAN]
    /\ at = "start"
    /\ memberstackDir \in DirStates
    /\ claudeFile \in {<<>>} \cup {<<t>> : t \in ProjectTexts("CLAUDE.md")}
    /\ cursorFile \in {<<>>} \cup {<<t>> : t \in ProjectTexts(".cursorrules")}
    /\ started = [dir |-> memberstackDir, claude |-> claudeFile, cursor |-> cursorFile]
    /\ validation = <<>>

NextInstall ==
    \/ CreateMemberstackDirectory
    \/ DownloadDocumentation
    \/ InstallClaudeFile
    \/ InstallCursorRules
    \/ FinishInstall
    \/ RemoveMemberstackDirectory
    \/ RemoveClaudeSection
    \/ RemoveCursorSection
    \/ ValidateCommand

SpecInstall == InitInstall /\ [][NextInstall]_vars

(* ------------------------ properties of the scanner -------------------- *)

\* the step taken is an iteration of the loop of parseDocumentation
IsScanStep == pc = "scan" /\ lineNumber' = lineNumber + 1

\* the line that iteration scans
ScannedLine == lines[lineNumber + 1]

\* the descriptors a step leaves open or appends to this.methods
DescriptorsAfter ==
    (IF currentMethod' # <<>> THEN {currentMethod'[1]} ELSE {})
        \cup {methods'[i] : i \in (Len(methods) + 1)..Len(methods')}

\* the fields of a descriptor the scenario of section 8 names
Fields(m) == <<m.name, m.category, m.signature, m.returns>>

C1_HeadingStep ==
    ( /\ IsScanStep
      /\ currentMethod # <<>>
      /\ IsMethodHeading(ScannedLine)
      /\ MethodHeadingName(ScannedLine) # currentMethod[1].name )
    => /\ Len(methods') > Len(methods)
       /\ methods'[Len(methods) + 1] = currentMethod[1]

C1_ScenarioStep ==
    (pc' = "parsed" /\ content = ScenarioContent)
    => /\ Len(methods') = 2
       /\ Fields(methods'[1]) = <<"login", "authentication", "login(email)", "Promise<Member>">>
       /\ methods'[2].name = "logout"
       /\ methods'[2].category = "authentication"

\* C1: a '### name()' heading whose name differs from the open method's appends
\* the open method to this.methods before the new one opens, so every such
\* heading yields one descriptor, in source order; the scenario of section 8
\* yields login (authentication, login(email), Promise<Member>) then logout.
C1_FlushBeforeOpen == [][C1_HeadingStep /\ C1_ScenarioStep]_vars

\* C2: once a line has set the signature of the open method, later lines
\* scanned while it is open leave the signature as it is (first match wins).
C2_FirstSignatureWins ==
    [][ (IsScanStep /\ currentMethod # <<>> /\ currentMethod[1].signature # "")
        => \A m \in DescriptorsAfter :
              m.lineNumber = currentMethod[1].lineNumber
              => m.signature = currentMethod[1].signature ]_vars

\* C3: once a line has set the returns field of the open method, later lines
\* scanned while it is open leave returns as it is (first match wins).
C3_FirstReturnsWins ==
    [][ (IsScanStep /\ currentMethod # <<>> /\ currentMethod[1].returns # "")
        => \A m \in DescriptorsAfter :
              m.lineNumber = currentMethod[1].lineNumber
              => m.returns = currentMethod[1].returns ]_vars

\* C4: a heading line textually identical to the one that opened the open
\* method is a no-op: nothing is flushed and the open descriptor keeps its
\* lineNumber, signature and returns.
C4_IdenticalHeadingNoOp ==
    [][ ( /\ IsScanStep
          /\ currentMethod # <<>>
          /\ ScannedLine = "### " \o currentMethod[1].name \o "()" )
        => /\ methods' = methods
           /\ currentMethod' # <<>>
           /\ currentMethod'[1].name = currentMethod[1].name
           /\ currentMethod'[1].lineNumber = currentMethod[1].lineNumber
           /\ currentMethod'[1].signature = currentMethod[1].signature
           /\ currentMethod'[1].returns = currentMethod[1].returns ]_vars

C5_HeadingStep ==
    ( /\ IsScanStep
      /\ currentMethod # <<>>
      /\ IsSectionHeading(ScannedLine) \/ IsCategoryHeader(ScannedLine) )
    => /\ Len(methods') = Len(methods) + 1
       /\ methods'[Len(methods')].lineNumber = currentMethod[1].lineNumber
       /\ currentMethod' = <<>>

C5_EndOfInputStep ==
    (pc = "scan" /\ pc' = "parsed" /\ currentMethod # <<>>)
    => methods' = Append(methods, currentMethod[1])

\* C5: a '## ...' or '# ...' heading scanned while a method is open appends that
\* method at that line and leaves no method open; a method still open at end
\* of input is appended as the last descriptor.
C5_SectionHeadingFlushes == [][C5_HeadingStep /\ C5_EndOfInputStep]_vars

(* ----------------------- properties of the categories ------------------ *)

\* the priority of the category keywords and the category each priority selects
KeywordRank ==
    [k \in {"authentication", "member", "plan", "subscription", "ui", "component", "advanced"} |->
        CASE k = "authentication" -> 1
          [] k = "member" -> 2
          [] k \in {"plan", "subscription"} -> 3
          [] k \in {"ui", "component"} -> 4
          [] k = "advanced" -> 5]

RankCategory == <<"authentication", "members", "plans", "ui", "advanced">>

CategoryNames == Range(RankCategory) \cup {"general"}

\* the category keywords the lowercased text of a top-level heading contains
PresentKeywords(line) ==
    {k \in DOMAIN KeywordRank : Includes(ToLowerCase(HeaderText(line)), k)}

\* a top-level heading that contains a category keyword
IsRecognized(line) == IsCategoryHeader(line) /\ PresentKeywords(line) # {}

\* the category of the keyword of highest priority in a recognized heading
SelectedCategory(line) ==
    LET ks == PresentKeywords(line)
        k  == CHOOSE x \in ks : \A y \in ks : KeywordRank[x] <= KeywordRank[y]
    IN  RankCategory[KeywordRank[k]]

\* the category selected by the last recognized heading among the first n lines
CategoryAfter(n) ==
    LET rs == {i \in 1..n : IsRecognized(lines[i])}
    IN  IF rs = {} THEN "general"
        ELSE SelectedCategory(lines[CHOOSE i \in rs : \A j \in rs : j <= i])

\* the descriptors open or in this.methods
Descriptors == Range(methods) \cup Range(currentMethod)

\* C6: the category of every descriptor is the one selected by the most recent
\* recognized top-level heading before the descriptor's own heading line,
\* 'general' if there is none, whatever has been scanned since.
C6_CategoryAtOpen ==
    \A m \in Descriptors : m.category = CategoryAfter(m.lineNumber - 1)

\* a descriptor opened under 'authentication' after an unrecognized heading, in
\* this.methods at the end of a scan that a later heading left in 'members'
C6_Witness ==
    /\ pc = "parsed"
    /\ currentCategory = "members"
    /\ \E i \in 1..Len(methods) :
          /\ methods[i].category = "authentication"
          /\ \E j \in 1..(methods[i].lineNumber - 1) :
                IsCategoryHeader(lines[j]) /\ ~IsRecognized(lines[j])

\* C7: a top-level heading selects the category of the keyword of highest
\* priority among those its lowercased text contains, in the order
\* authentication > member > plan/subscription > ui/component > advanced.
C7_KeywordPriority ==
    (lineNumber = 1 /\ IsRecognized(lines[1]))
    => currentCategory = SelectedCategory(lines[1])

\* a heading with both 'member' and 'plan' has been scanned and selected 'members'
C7_Witness ==
    /\ lineNumber = 1
    /\ IsCategoryHeader(lines[1])
    /\ {"member", "plan"} \subseteq PresentKeywords(lines[1])
    /\ "authentication" \notin PresentKeywords(lines[1])
    /\ currentCategory = "members"

RECURSIVE SumOver(_, _)
SumOver(f, keys) ==
    IF keys = {} THEN 0
    ELSE LET k == CHOOSE x \in keys : TRUE
         IN  f[k] + SumOver(f, keys \ {k})

\* how often descriptor m occurs in the list of category c
Occurrences(m, c) ==
    Cardinality({i \in 1..Len(categories[c].methods) : categories[c].methods[i] = m})

\* C8: every flushed descriptor is in exactly one list of this.categories, the
\* one keyed by its category; the keys are among the six category names; the
\* sizes of the lists sum to the number of flushed methods.
C8_CategoriesPartition ==
    /\ DOMAIN categories \subseteq CategoryNames
    /\ \A i \in 1..Len(methods) :
          /\ methods[i].category \in DOMAIN categories
          /\ Occurrences(methods[i], methods[i].category) = 1
          /\ \A c \in DOMAIN categories \ {methods[i].category} :
                Occurrences(methods[i], c) = 0
    /\ SumOver([c \in DOMAIN categories |-> Len(categories[c].methods)], DOMAIN categories)
          = Len(methods)

\* two methods have been flushed into two different categories
C8_Witness ==
    /\ pc = "parsed"
    /\ Len(methods) >= 2
    /\ Cardinality(DOMAIN categories) >= 2

(* ---------------------- properties of the keyword map ------------------ *)

\* the methods named n that trigger keyword k, by position in this.methods
Triggers(k, n) ==
    {i \in 1..Len(methods) : methods[i].name = n /\ k \in Range(KeywordsOf(n))}

FirstTrigger(k, n) ==
    LET ts == Triggers(k, n) IN CHOOSE i \in ts : \A j \in ts : i <= j

\* C9: no list of searchKeywords holds a method name twice, and the names of a
\* list are in the order in which a method of that name first triggered the keyword.
C9_KeywordListsDistinctOrdered ==
    \A k \in DOMAIN searchKeywords :
        LET l == searchKeywords[k]
        IN  /\ \A a, b \in 1..Len(l) : a # b => l[a] # l[b]
            /\ \A a \in 1..Len(l) : Triggers(k, l[a]) # {}
            /\ \A a, b \in 1..Len(l) :
                  a < b => FirstTrigger(k, l[a]) < FirstTrigger(k, l[b])

\* a keyword lists two names, one of them of a method that was added twice
C9_Witness ==
    \E k \in DOMAIN searchKeywords :
        /\ Len(searchKeywords[k]) >= 2
        /\ \E a \in 1..Len(searchKeywords[k]) :
              Cardinality(Triggers(k, searchKeywords[k][a])) >= 2

\* C10: adding the same method list a second time, to the indexer that already
\* holds it or to a new one, leaves the keyword map the first pass built.
C10_KeywordIndexIdempotent ==
    (pc = "feed2" /\ fed = Len(feed)) => searchKeywords = snapshot

\* the list has been added twice to the same indexer and a keyword lists two names
C10_Witness ==
    /\ pc = "feed2"
    /\ fed = Len(feed)
    /\ Len(methods) = 2 * Len(feed)
    /\ \E k \in DOMAIN searchKeywords : Len(searchKeywords[k]) >= 2


\* the trigger table of the specification's section 4.2: the substrings looked for
\* in the lowercased method name and the keywords each of them stands for
TriggerGroups ==
    [t \in {"login", "signup", "logout", "password", "email", "social", "member",
            "plan", "payment", "update", "delete", "get", "modal"} |->
        CASE t = "login"    -> {"login", "signin", "authenticate"}
          [] t = "signup"   -> {"signup", "register", "create account"}
          [] t = "logout"   -> {"logout", "signout"}
          [] t = "password" -> {"password"}
          [] t = "email"    -> {"email"}
          [] t = "social"   -> {"social", "oauth", "google", "facebook"}
          [] t = "member"   -> {"member", "user", "profile"}
          [] t = "plan"     -> {"plan", "subscription", "pricing"}
          [] t = "payment"  -> {"payment", "billing", "checkout"}
          [] t = "update"   -> {"update", "modify", "change"}
          [] t = "delete"   -> {"delete", "remove"}
          [] t = "get"      -> {"get", "fetch", "retrieve"}
          [] t = "modal"    -> {"modal", "ui", "dialog"}]

\* the triggers the lowercased method name contains
TriggersIn(name) == {t \in DOMAIN TriggerGroups : Includes(ToLowerCase(name), t)}

\* C11: a method name is listed under every keyword of every trigger its
\* lowercased name contains, and under no other keyword; no keyword has an
\* empty list.
C11_TriggerTable ==
    /\ \A i \in 1..Len(methods) : \A t \in TriggersIn(methods[i].name) :
          \A k \in TriggerGroups[t] :
             k \in DOMAIN searchKeywords /\ methods[i].name \in Range(searchKeywords[k])
    /\ \A k \in DOMAIN searchKeywords :
          /\ searchKeywords[k] # <<>>
          /\ \A n \in Range(searchKeywords[k]) :
                /\ \E i \in 1..Len(methods) : methods[i].name = n
                /\ \E t \in TriggersIn(n) : k \in TriggerGroups[t]

\* a method that fires two triggers, one that fires 'get' and one that fires none
\* have been added
C11_Witness ==
    /\ \E i \in 1..Len(methods) : Cardinality(TriggersIn(methods[i].name)) >= 2
    /\ \E i \in 1..Len(methods) : TriggersIn(methods[i].name) = {}
    /\ "fetch" \in DOMAIN searchKeywords


(* ----------------------- properties of the index ----------------------- *)

\* the curated lists of well-known names, by quick-reference group
Curated ==
    [authentication |-> AuthMethods, members |-> MemberMethods, plans |-> PlanMethods]

\* the names of the entries of allMethods
IndexedNames == {index[1].allMethods[i].name : i \in 1..Len(index[1].allMethods)}

\* position of a name in a list without repetitions
PositionIn(seq, name) == CHOOSE i \in 1..Len(seq) : seq[i] = name

\* C12: each quickReference group holds exactly the curated names that are names
\* of entries of allMethods, in curated order; names absent from the corpus
\* are left out and the index is still produced.
C12_QuickReferencePresentOnly ==
    index # <<>> =>
        /\ DOMAIN index[1].quickReference = DOMAIN Curated
        /\ \A g \in DOMAIN Curated :
              LET q == index[1].quickReference[g]
              IN  /\ Range(q) = Range(Curated[g]) \cap IndexedNames
                  /\ \A a, b \in 1..Len(q) :
                        a < b => PositionIn(Curated[g], q[a]) < PositionIn(Curated[g], q[b])

\* updateMember was scanned before getCurrentMember and a method outside the
\* curated lists is absent: the group lists both in curated order
C12_Witness ==
    /\ index # <<>>
    /\ index[1].quickReference.members = <<"getCurrentMember", "updateMember">>
    /\ index[1].allMethods[1].name = "updateMember"
    /\ index[1].quickReference.plans = <<>>

RECURSIVE ParseDecimal(_)
\* the number a string of decimal digits denotes
ParseDecimal(s) ==
    IF s = "" THEN 0
    ELSE 10 * ParseDecimal(SubSeq(s, 1, Len(s) - 1))
         + (CHOOSE v \in 0..9 : Ch(DigitChars, v + 1) = Ch(s, Len(s)))

\* the line a docLocation points at
LocationLine(loc) == ParseDecimal(SubSeq(loc, Len("complete.md#L") + 1, Len(loc)))

\* C13: totalMethods is the length of allMethods; allMethods lists the flushed
\* descriptors in source order, each with docLocation 'complete.md#L<n>', n the
\* 1-based line of the heading that opened it, strictly increasing.
C13_AllMethodsInSourceOrder ==
    index # <<>> =>
        LET all == index[1].allMethods
        IN  /\ index[1].totalMethods = Len(all)
            /\ Len(all) = Len(methods)
            /\ \A i \in 1..Len(all) :
                  /\ Fields(all[i]) = Fields(methods[i])
                  /\ StartsAt(all[i].docLocation, "complete.md#L", 1)
                  /\ LocationLine(all[i].docLocation) \in 1..Len(lines)
                  /\ IsMethodHeading(lines[LocationLine(all[i].docLocation)])
                  /\ MethodHeadingName(lines[LocationLine(all[i].docLocation)]) = all[i].name
            /\ \A i, j \in 1..Len(all) :
                  i < j => LocationLine(all[i].docLocation) < LocationLine(all[j].docLocation)

\* an index of two methods, the second opened on line 12
C13_Witness ==
    /\ index # <<>>
    /\ index[1].totalMethods = 2
    /\ index[1].allMethods[2].docLocation = "complete.md#L12"


\* the parts of an index the builds are compared on
Compared(ix) == <<ix.totalMethods, ix.categories, ix.searchKeywords, ix.allMethods>>

\* C14 as stated: a build from a text gives the index that a build from that
\* text alone gives, also when the indexer has built before.
C14_NoStateAcrossBuilds ==
    \A i, j \in 1..Len(runs) :
        (runs[i].fresh /\ runs[i].content = runs[j].content)
        => Compared(runs[j].index) = Compared(runs[i].index)

\* C14 amended: builds that each start on a new MemberstackIndexer(), as every
\* run of the build script does, give for the same text the same index.
C14_NoStateAcrossFreshBuilds ==
    \A i, j \in 1..Len(runs) :
        (runs[i].fresh /\ runs[j].fresh /\ runs[i].content = runs[j].content)
        => Compared(runs[j].index) = Compared(runs[i].index)

\* a text with a method has been built twice, the second time by a new indexer
C14_Witness ==
    /\ Len(runs) = 2
    /\ runs[2].fresh
    /\ runs[1].content = runs[2].content
    /\ runs[2].index.totalMethods >= 1


\* a line the signature capture accepts
IsInvocationLine(line) ==
    Includes(line, "await memberstack.") /\ SigMatchPositions(line) # {}

\* a line the return-type capture accepts
IsReturnLine(line) ==
    Includes(line, "Promise<") /\ ReturnMatchPositions(line) # {}

\* the last scanned line on which the descriptor opened on line h was the
\* open method: h itself when the flush test fires on its own heading, else
\* the first later method or section heading, else the last line scanned
IntervalEnd(h) ==
    IF lines[h] # ("### " \o MethodHeadingName(lines[h]) \o "()")
    THEN h
    ELSE LET later == {j \in (h + 1)..lineNumber :
                          IsMethodHeading(lines[j]) \/ IsSectionHeading(lines[j])}
         IN  IF later = {} THEN lineNumber
             ELSE CHOOSE j \in later : \A k \in later : j <= k

\* the lines of the open interval of a descriptor
OpenInterval(m) == m.lineNumber..IntervalEnd(m.lineNumber)

\* C15: while lines remain the loop has a next line to scan and it ends only
\* after the last line (no line makes parseDocumentation stop short), and a
\* descriptor whose open interval has no invocation line has signature "",
\* one whose open interval has no 'Promise<...>' line has returns "".
C15_AnomaliesLeaveFieldsEmpty ==
    /\ pc = "scan" => lineNumber <= Len(lines)
    /\ pc \in {"parsed", "indexed"} => lineNumber = Len(lines)
    /\ \A m \in Descriptors :
          /\ (\A j \in OpenInterval(m) : ~IsInvocationLine(lines[j]))
                => m.signature = ""
          /\ (\A j \in OpenInterval(m) : ~IsReturnLine(lines[j]))
                => m.returns = ""

\* a parse has ended with a method of empty signature and returns although
\* the text has an invocation line and a return line outside its interval
C15_Witness ==
    /\ pc = "parsed"
    /\ \E m \in Range(methods) :
          /\ m.signature = ""
          /\ m.returns = ""
          /\ \E j \in 1..Len(lines) :
                j \notin OpenInterval(m) /\ IsInvocationLine(lines[j])
          /\ \E j \in 1..Len(lines) :
                j \notin OpenInterval(m) /\ IsReturnLine(lines[j])


\* C16: with the markdown file absent buildFromFile rejects before a line is
\* scanned or a method parsed, no index is returned or written, and the build
\* script ends only with the failure status 1.
C16_AbsentSourceFails ==
    docFile = <<>> =>
        /\ pc \in {"idle", "rejected", "exited"}
        /\ methods = <<>>
        /\ currentMethod = <<>>
        /\ lineNumber = 0
        /\ index = <<>>
        /\ indexFile = <<>>
        /\ exitStatus \in {-1, 1}
        /\ pc = "exited" <=> exitStatus = 1

\* the build script has exited with status 1 on an absent file
C16_Witness ==
    /\ docFile = <<>>
    /\ pc = "exited"
    /\ exitStatus = 1
    /\ indexFile = <<>>


\* the file has been patched, and the patch found it present
PatchedExisting == calls > 0 /\ prev # <<>>

\* C17: a patch of a file that does not exist creates it with exactly the
\* section content, nothing before or after it, and reports 'created'.
C17_AbsentFileCreated ==
    (calls > 0 /\ prev = <<>>) =>
        /\ file = <<template>>
        /\ outcome = "created"

\* the scenario: OUT.md did not exist and holds exactly "X"
C17_Witness ==
    /\ calls = 1
    /\ prev = <<>>
    /\ target = "OUT.md"
    /\ template = "X"
    /\ file = <<"X">>

\* C18: a patch of a file without the start marker leaves the previous
\* content as prefix, followed by two line breaks and the section content,
\* and reports 'appended-new'.
C18_NoMarkerAppends ==
    (PatchedExisting /\ ~Includes(prev[1], MarkerStart(target))) =>
        /\ file = <<prev[1] \o "\n\n" \o template>>
        /\ SubSeq(file[1], 1, Len(prev[1])) = prev[1]
        /\ outcome = "appended-new"

\* a file of user text only has got the section appended
C18_Witness ==
    /\ calls = 1
    /\ prev = <<"pre\n\npost">>
    /\ target = "CLAUDE.md"
    /\ file = <<"pre\n\npost\n\n" \o template>>


\* 0-based offset of the start marker in the content the patch found
PrevStartIndex == IndexOf(prev[1], MarkerStart(target))

\* 0-based offset of the end marker in the content the patch found, -1 if none
PrevEndMarkerAt == IndexOf(prev[1], MarkerEnd(target))

\* endIndex as the claim defines it
PrevEndIndex == PrevEndMarkerAt + Len(MarkerEnd(target))

\* the text strictly before the first start marker
TextBeforeStart(text) == SubSeq(text, 1, IndexOf(text, MarkerStart(target)))

\* the text strictly after the first end marker
TextAfterEnd(text) ==
    SubSeq(text, IndexOf(text, MarkerEnd(target)) + Len(MarkerEnd(target)) + 1, Len(text))

\* t is the end of text
EndsWith(text, t) ==
    /\ Len(t) <= Len(text)
    /\ SubSeq(text, Len(text) - Len(t) + 1, Len(text)) = t

\* C19: with the start marker at startIndex and endIndex > startIndex the
\* patch writes content[0:startIndex] + newContent + content[endIndex:] and
\* reports 'replaced'; the text before the start marker and the text after
\* the end marker are unchanged, as in the scenario 'pre\n<!--S-->old<!--E-->\npost'.
C19_ReplaceKeepsOutside ==
    (/\ PatchedExisting
     /\ Includes(prev[1], MarkerStart(target))
     /\ PrevEndIndex > PrevStartIndex) =>
        /\ outcome = "replaced"
        /\ file = << SubSeq(prev[1], 1, PrevStartIndex)
                        \o template
                        \o SubSeq(prev[1], PrevEndIndex + 1, Len(prev[1])) >>
        /\ StartsAt(file[1], TextBeforeStart(prev[1]) \o template, 1)
        /\ PrevEndMarkerAt >= 0 => EndsWith(file[1], template \o TextAfterEnd(prev[1]))
        /\ (/\ target = "OUT.md"
            /\ prev = <<"pre\n<!--S-->old<!--E-->\npost">>
            /\ template = "<!--S-->new<!--E-->")
                => file = <<"pre\n<!--S-->new<!--E-->\npost">>

\* the scenario: the section between 'pre\n' and '\npost' has been replaced
C19_Witness ==
    /\ calls = 1
    /\ target = "OUT.md"
    /\ prev = <<"pre\n<!--S-->old<!--E-->\npost">>
    /\ file = <<"pre\n<!--S-->new<!--E-->\npost">>
    /\ outcome = "replaced"

\* the content the patch found has the start marker but no end marker after it
CorruptedMarkers ==
    /\ Includes(prev[1], MarkerStart(target))
    /\ \/ PrevEndMarkerAt = -1
       \/ PrevEndMarkerAt < PrevStartIndex + Len(MarkerStart(target))

\* C20: a patch of a file with the start marker and no end marker after it
\* keeps the previous content as prefix: the file is the previous content,
\* two line breaks and the section content, and is no shorter than before.
C20_CorruptedMarkersAppend ==
    (PatchedExisting /\ CorruptedMarkers) =>
        /\ file = <<prev[1] \o "\n\n" \o template>>
        /\ StartsAt(file[1], prev[1], 1)
        /\ Len(file[1]) >= Len(prev[1])


\* the patch found the start marker and endIndex > startIndex
PrevRangeAccepted ==
    /\ prev # <<>>
    /\ Includes(prev[1], MarkerStart(target))
    /\ PrevEndIndex > PrevStartIndex

\* C21: the outcome reported is determined by the file state the patch read:
\* 'created' iff absent, 'appended-new' iff present without the start marker,
\* 'replaced' iff the start marker was found and endIndex > startIndex, and
\* 'appended-corrupted', never 'replaced', in every other case.
C21_OutcomeFunction ==
    calls > 0 =>
        /\ outcome \in {"created", "appended-new", "replaced", "appended-corrupted"}
        /\ outcome = "created" <=> prev = <<>>
        /\ outcome = "appended-new"
              <=> (prev # <<>> /\ ~Includes(prev[1], MarkerStart(target)))
        /\ outcome = "replaced" <=> PrevRangeAccepted
        /\ outcome = "appended-corrupted"
              <=> (/\ prev # <<>>
                   /\ Includes(prev[1], MarkerStart(target))
                   /\ PrevEndIndex <= PrevStartIndex)

\* a file whose end marker stands before its start marker has been patched
\* and the corrupted markers were reported
C21_Witness ==
    /\ calls = 1
    /\ prev = <<MarkerEnd(target) \o MarkerStart(target)>>
    /\ outcome = "appended-corrupted"


\* C22: a second patch in succession, with the section content the installer
\* uses, is a clean replace that leaves the file as the first patch left it.
C22_ReinstallIdempotent ==
    (calls = 2 /\ target \in InstallerTargets) =>
        /\ file = prev
        /\ outcome = "replaced"


\* the calls that are a patch immediately followed by a remove
RoundTrips ==
    {i \in 1..(Len(log) - 1) : log[i].op = "patch" /\ log[i + 1].op = "remove"}

\* text is base with trailing whitespace trimmed at some boundary
TrimmedAtBoundary(text, base) ==
    \E k \in 0..Len(base) :
        text = TrimEnd(SubSeq(base, 1, k)) \o SubSeq(base, k + 1, Len(base))

\* C23 as stated: whatever the file was before a patch, the patch followed
\* by a remove leaves the pre-patch content, at most with trailing whitespace
\* trimmed where the section was.
C23_RoundTripRestores ==
    \A i \in RoundTrips :
        /\ log[i].before = <<>> <=> log[i + 1].after = <<>>
        /\ log[i].before # <<>> =>
              TrimmedAtBoundary(log[i + 1].after[1], log[i].before[1])

\* the file exists and holds neither the start nor the end marker
MarkerFree(fileState) ==
    /\ fileState # <<>>
    /\ ~Includes(fileState[1], MarkerStart(target))
    /\ ~Includes(fileState[1], MarkerEnd(target))

\* C23 amended: for a file that held neither marker, a patch with a section
\* content that holds the start marker, followed by a remove, leaves the
\* pre-patch content with its trailing whitespace trimmed, followed by what
\* the section content has after its end marker; a file that was absent is
\* left with that remainder alone.
C23_RoundTripOnMarkerFree ==
    \A i \in RoundTrips :
        Includes(template, MarkerStart(target)) =>
            /\ MarkerFree(log[i].before) =>
                  log[i + 1].after
                      = <<TrimEnd(log[i].before[1]) \o TextAfterEnd(template)>>
            /\ log[i].before = <<>> =>
                  log[i + 1].after = <<TextAfterEnd(template)>>

\* .cursorrules held 'pre' and a line break, was patched and the section
\* removed again: it holds 'pre'
C23_Witness ==
    /\ Len(log) = 2
    /\ 1 \in RoundTrips
    /\ target = ".cursorrules"
    /\ log[1].before = <<"pre\n">>
    /\ log[2].after = <<"pre">>

\* the latest call on the file was a removeFromFile
LastWasRemove == calls > 0 /\ log[Len(log)].op = "remove"

\* C24: a remove of a file that is absent or has no start marker leaves the
\* file as it was: not created, not written, same content.
C24_RemoveWithoutMarkerNoOp ==
    (LastWasRemove /\ (prev = <<>> \/ ~Includes(prev[1], MarkerStart(target)))) =>
        /\ file = prev
        /\ outcome = "untouched"

\* an absent file has been removed from twice and is still absent
C24_Witness ==
    /\ Len(log) = 2
    /\ log[1].op = "remove" /\ log[1].before = <<>>
    /\ log[2].op = "remove" /\ log[2].after = <<>>

\* C25: a remove of a file with the start marker and no end marker after it
\* leaves the content as it was.
C25_RemoveCorruptedNoOp ==
    (LastWasRemove /\ prev # <<>> /\ CorruptedMarkers) => file = prev

\* C26: with the start marker at startIndex and endIndex > startIndex remove
\* writes the right-trimmed content[0:startIndex] followed by
\* content[endIndex:]; the text after the end marker is kept, the text before
\* the start marker is kept up to its trailing whitespace, and nothing else.
C26_RemoveWritesOutside ==
    (LastWasRemove /\ PrevRangeAccepted) =>
        /\ outcome = "removed"
        /\ file = << TrimEnd(SubSeq(prev[1], 1, PrevStartIndex))
                        \o SubSeq(prev[1], PrevEndIndex + 1, Len(prev[1])) >>
        /\ StartsAt(file[1], TrimEnd(TextBeforeStart(prev[1])), 1)
        /\ PrevEndMarkerAt >= 0 =>
              /\ EndsWith(file[1], TextAfterEnd(prev[1]))
              /\ Len(file[1]) = Len(TrimEnd(TextBeforeStart(prev[1])))
                                   + Len(TextAfterEnd(prev[1]))

\* the section between 'pre\n' and '\npost' has been removed
C26_Witness ==
    /\ LastWasRemove
    /\ prev = <<SectionBetween(target)>>
    /\ file = <<"pre\npost">>


\* the text holds a section: a start marker and, after it, the first end marker
HoldsSection(text) ==
    /\ Includes(text, MarkerStart(target))
    /\ IndexOf(text, MarkerEnd(target))
          >= IndexOf(text, MarkerStart(target)) + Len(MarkerStart(target))

\* the content outside a previously installed marker-delimited section
OutsideSection(text) ==
    IF HoldsSection(text)
    THEN TextBeforeStart(text) \o TextAfterEnd(text)
    ELSE text

\* text is base with the section content, or the separator of an append and
\* the section content, put in at one place
SectionPutInto(text, base) ==
    \E k \in 0..Len(base) :
        \E written \in {template, "\n\n" \o template} :
            text = SubSeq(base, 1, k) \o written \o SubSeq(base, k + 1, Len(base))

\* C27: after a patch of CLAUDE.md or .cursorrules that existed, the content
\* that stood outside a marker-delimited section is all still there, in
\* order: the file is that content with the new section put in.
C27_InstallKeepsOutsideContent ==
    (PatchedExisting /\ target \in InstallerTargets) =>
        SectionPutInto(file[1], OutsideSection(prev[1]))


\* how many times sub occurs in text
CountOf(text, sub) == Cardinality({i \in 1..Len(text) : StartsAt(text, sub, i)})

\* some install was made on the file before the latest call
InstalledBefore == \E i \in 1..(Len(log) - 1) : log[i].op = "patch"

NoStrayMarker(fileState) ==
    \/ fileState = <<>>
    \/ /\ CountOf(fileState[1], MarkerStart(target)) <= 1
       /\ CountOf(fileState[1], MarkerEnd(target)) <= 1
       /\ \/ ~Includes(fileState[1], MarkerEnd(target))
          \/ /\ Includes(fileState[1], MarkerStart(target))
             /\ IndexOf(fileState[1], MarkerEnd(target))
                   > IndexOf(fileState[1], MarkerStart(target))

ComputedFrom(e) ==
    IF e.op = "patch"
    THEN <<Written(e.before, template, MarkerStart(target), MarkerEnd(target)).text>>
    ELSE Removed(e.before, MarkerStart(target), MarkerEnd(target), FALSE).state

\* the logged calls that wrote the file
Writers == {i \in 1..Len(log) : log[i].outcome # "untouched"}

\* both calls were installs that read a file holding neither marker
BothReadMarkerFree ==
    /\ Len(log) = 2
    /\ \A i \in 1..2 : log[i].op = "patch" /\ MarkerFree(log[i].before)

\* C29 as stated: every write leaves the file as exactly what the writing call
\* computed from the content it read, so two racing installs into a file
\* without a section leave one copy of the section.
C29_LastWriterWins ==
    /\ \A i \in Writers : log[i].after = ComputedFrom(log[i])
    /\ BothReadMarkerFree => CountOf(file[1], MarkerStart(target)) = 1

\* what the file held when the i-th logged call wrote
HeldAtWrite(i) == IF i = 1 THEN log[1].before ELSE log[i - 1].after

\* C29 amended: a remove and a creating or replacing patch leave the file as
\* what the call computed from the content it read; an appending patch leaves
\* what the file held when it wrote, two line breaks and the section content,
\* so two racing installs into a file without a section leave two copies.
C29_OverwriteOrAppend ==
    /\ \A i \in Writers :
          IF log[i].outcome \in {"appended-new", "appended-corrupted"}
          THEN log[i].after = <<HeldAtWrite(i)[1] \o "\n\n" \o template>>
          ELSE log[i].after = ComputedFrom(log[i])
    /\ BothReadMarkerFree => CountOf(file[1], MarkerStart(target)) = 2

\* two installs have both read CLAUDE.md holding 'pre' and both have written
C29_Witness ==
    /\ \A p \in Callers : callers[p].at = "done" /\ callers[p].read = <<"pre\n">>
    /\ BothReadMarkerFree
    /\ target = "CLAUDE.md"
    /\ CountOf(file[1], CLAUDE_MARKER_START) = 2


\* C30: from start to end of a dry-run install, update or remove the
\* .memberstack directory with its files, CLAUDE.md and .cursorrules are as
\* the command found them, and a dry-run install does not run validate.
C30_DryRunModifiesNothing ==
    (options.dryRun /\ options.command \in {"install", "update", "remove"}) =>
        /\ memberstackDir = started.dir
        /\ claudeFile = started.claude
        /\ cursorFile = started.cursor
        /\ validation = <<>>

\* a dry-run install has ended in a project without .memberstack,
\* CLAUDE.md and .cursorrules, and none of them exists
C30_Witness ==
    /\ options = [command |-> "install", dryRun |-> TRUE]
    /\ at = "done"
    /\ started = [dir |-> <<>>, claude |-> <<>>, cursor |-> <<>>]
    /\ memberstackDir = <<>>
    /\ claudeFile = <<>>
    /\ cursorFile = <<>>


\* the file state the first call on the file found
FirstState == IF log = <<>> THEN file ELSE log[1].before

\* the section content is the start marker, a body free of markers, and the
\* end marker
SectionWellFormed ==
    /\ StartsAt(template, MarkerStart(target), 1)
    /\ EndsWith(template, MarkerEnd(target))
    /\ CountOf(template, MarkerStart(target)) = 1
    /\ CountOf(template, MarkerEnd(target)) = 1

\* C31: from a file that holds neither marker, under any sequence of patch
\* and remove calls with a section content of the form start marker, body,
\* end marker, the file holds at most one start marker and at most one end
\* marker, and when it holds both the start marker comes first.
C31_AtMostOneSection ==
    (/\ FirstState = <<>> \/ MarkerFree(FirstState)
     /\ SectionWellFormed
     /\ file # <<>>) =>
        /\ CountOf(file[1], MarkerStart(target)) <= 1
        /\ CountOf(file[1], MarkerEnd(target)) <= 1
        /\ (/\ Includes(file[1], MarkerStart(target))
            /\ Includes(file[1], MarkerEnd(target))) =>
                IndexOf(file[1], MarkerStart(target))
                    < IndexOf(file[1], MarkerEnd(target))

\* .cursorrules held user text without markers and has been patched twice:
\* it holds one section
C31_Witness ==
    /\ Len(log) = 2
    /\ target = ".cursorrules"
    /\ MarkerFree(log[1].before)
    /\ SectionWellFormed
    /\ log[1].op = "patch" /\ log[2].op = "patch"
    /\ CountOf(file[1], CURSOR_MARKER_START) = 1
    /\ CountOf(file[1], CURSOR_MARKER_END) = 1


\* the file exists and its first end marker stands before its first start marker
EndBeforeStart(fileState) ==
    /\ fileState # <<>>
    /\ Includes(fileState[1], MarkerStart(target))
    /\ Includes(fileState[1], MarkerEnd(target))
    /\ IndexOf(fileState[1], MarkerEnd(target))
          < IndexOf(fileState[1], MarkerStart(target))

\* C32: in a file whose first end marker stands before its first start
\* marker every patch takes the corrupted path: it appends two line breaks
\* and the section content, the file gets strictly longer on every call, and
\* the file it leaves is again such a file, so that no install leaves the
\* file as it found it.
C32_EndBeforeStartNeverSettles ==
    EndBeforeStart(FirstState) =>
        \A i \in 1..Len(log) :
            log[i].op = "patch" =>
                /\ log[i].outcome = "appended-corrupted"
                /\ log[i].after = <<log[i].before[1] \o "\n\n" \o template>>
                /\ Len(log[i].after[1]) > Len(log[i].before[1])
                /\ log[i].after # log[i].before
                /\ EndBeforeStart(log[i].after)

\* CLAUDE.md held the end marker followed by the start marker and has been
\* patched twice: it holds two more copies of the section
C32_Witness ==
    /\ Len(log) = 2
    /\ target = "CLAUDE.md"
    /\ log[1].before = <<CLAUDE_MARKER_END \o CLAUDE_MARKER_START>>
    /\ log[1].op = "patch" /\ log[2].op = "patch"
    /\ file = <<CLAUDE_MARKER_END \o CLAUDE_MARKER_START
                  \o "\n\n" \o template \o "\n\n" \o template>>


\* a run of install or update, not a dry run, has ended without an error
InstallCompleted == Installing /\ ~options.dryRun /\ at = "done"

\* C33: after an install that is not a dry run has completed without error,
\* whatever the project held before, CLAUDE.md and .cursorrules exist and
\* hold their start marker and the whole section content in one piece, and
\* the validate of that run reports the section as present in both.
C33_InstallLeavesSections ==
    InstallCompleted =>
        /\ claudeFile # <<>>
        /\ Includes(claudeFile[1], CLAUDE_MARKER_START)
        /\ Includes(claudeFile[1], template)
        /\ cursorFile # <<>>
        /\ Includes(cursorFile[1], CURSOR_MARKER_START)
        /\ Includes(cursorFile[1], CursorTemplate)
        /\ validation # <<>>
        /\ validation[1].claude = "contains section"
        /\ validation[1].cursor = "contains section"

\* an install has completed in a project whose CLAUDE.md held a section
\* between user text and which had no .cursorrules
C33_Witness ==
    /\ InstallCompleted
    /\ options.command = "install"
    /\ started.claude = <<SectionBetween("CLAUDE.md")>>
    /\ started.cursor = <<>>
    /\ claudeFile = <<"pre\n" \o template \o "\npost">>
    /\ cursorFile = <<CursorTemplate>>
    /\ validation[1].claude = "contains section"


\* .memberstack holds the three documentation files
AllDownloaded ==
    /\ memberstackDir # <<>>
    /\ Range(DocFiles) \subseteq DOMAIN memberstackDir[1]

\* C34: when a documentation file can be neither fetched nor copied from a
\* local copy, install ends with the error rethrown, CLAUDE.md and
\* .cursorrules are as the run found them and validate has not run; the two
\* files are patched, and validate runs, only after every download succeeded.
C34_DownloadFailureLeavesConfig ==
    Installing =>
        /\ at = "failed" =>
              /\ ~options.dryRun
              /\ claudeFile = started.claude
              /\ cursorFile = started.cursor
              /\ validation = <<>>
        /\ (\/ claudeFile # started.claude
            \/ cursorFile # started.cursor
            \/ validation # <<>>) =>
              /\ at \in {"claude", "cursor", "done"}
              /\ AllDownloaded

\* an install into a project without .memberstack got complete.md, failed
\* on index.json and ended: CLAUDE.md and .cursorrules hold what they held
C34_Witness ==
    /\ options = [command |-> "install", dryRun |-> FALSE]
    /\ at = "failed"
    /\ started.dir = <<>>
    /\ memberstackDir # <<>>
    /\ DOMAIN memberstackDir[1] = {"complete.md"}
    /\ started.claude = <<"pre\n">>
    /\ claudeFile = <<"pre\n">>
    /\ cursorFile = started.cursor
    /\ validation = <<>>


\* the signatures the invocation lines of the open interval of m give
IntervalSignatures(m) ==
    {SigText(lines[j]) : j \in {k \in OpenInterval(m) : IsInvocationLine(lines[k])}}

\* the return types the 'Promise<...>' lines of the open interval of m give
IntervalReturns(m) ==
    {ReturnText(lines[j]) : j \in {k \in OpenInterval(m) : IsReturnLine(lines[k])}}

\* a line is scanned while no method is open and opens none
IsScanStepWithoutMethod ==
    /\ IsScanStep
    /\ currentMethod = <<>>
    /\ ~IsMethodHeading(ScannedLine)

\* C35: the signature and returns of a descriptor are empty or taken from a
\* line between the heading that opened it and the line that flushes it,
\* both included; an invocation or 'Promise<...>' line scanned while no
\* method is open changes no descriptor; and a descriptor that has been
\* flushed is changed by no later line.
C35_CapturedWithinInterval ==
    /\ [](\A m \in Descriptors :
            /\ m.signature \in {""} \cup IntervalSignatures(m)
            /\ m.returns \in {""} \cup IntervalReturns(m))
    /\ [][ /\ IsScanStepWithoutMethod =>
                /\ methods' = methods
                /\ categories' = categories
                /\ currentMethod' = <<>>
           /\ pc = "scan" =>
                /\ Len(methods') >= Len(methods)
                /\ \A i \in 1..Len(methods) : methods'[i] = methods[i] ]_vars

\* a parse has ended with login holding the signature of the line after its
\* heading, not that of the invocation line scanned before a method was open
C35_Witness ==
    /\ pc = "parsed"
    /\ lines = <<"r = await memberstack.login(a, b)", "### login()",
                 "await memberstack.login(email)">>
    /\ Len(methods) = 1
    /\ methods[1].signature = "login(email)"


\* the line matches /^###\s+(\w+)\(\)/ and is not '### ' + name + '()'
IsLooseHeading(line) ==
    /\ IsMethodHeading(line)
    /\ line # ("### " \o MethodHeadingName(line) \o "()")

\* the positions in this.methods of the descriptors opened on line h
EmittedFrom(h) == {i \in 1..Len(methods) : methods[i].lineNumber = h}

\* C36: a method heading that is not textually '### ' + name + '()' opens
\* the method and flushes it on that same line, leaving no method open; its
\* descriptor is in this.methods exactly once, and the invocation and return
\* lines that follow give it nothing: its signature and returns are what
\* the heading line itself gives.
C36_LooseHeadingFlushesAtOnce ==
    /\ [][ (IsScanStep /\ IsLooseHeading(ScannedLine)) =>
              /\ currentMethod' = <<>>
              /\ Len(methods') = Len(methods) + 1
              /\ SubSeq(methods', 1, Len(methods)) = methods
              /\ methods'[Len(methods')].name = MethodHeadingName(ScannedLine)
              /\ methods'[Len(methods')].lineNumber = lineNumber + 1 ]_vars
    /\ [](pc \in {"scan", "parsed"} =>
            \A h \in 1..lineNumber :
                IsLooseHeading(lines[h]) =>
                    /\ Cardinality(EmittedFrom(h)) = 1
                    /\ (currentMethod # <<>> => currentMethod[1].lineNumber # h)
                    /\ \A i \in EmittedFrom(h) :
                          /\ methods[i].signature
                                = IF IsInvocationLine(lines[h])
                                  THEN SigText(lines[h]) ELSE ""
                          /\ methods[i].returns
                                = IF IsReturnLine(lines[h])
                                  THEN ReturnText(lines[h]) ELSE "")

\* a parse of '### login() example' followed by an invocation and a return
\* line has ended with one descriptor, its signature and returns empty
C36_Witness ==
    /\ pc = "parsed"
    /\ lines = <<"### login() example", "await memberstack.login(email)",
                 "Promise<Member>">>
    /\ Len(methods) = 1
    /\ methods[1].name = "login"
    /\ methods[1].signature = ""
    /\ methods[1].returns = ""

====
